---- MODULE Spec2Model ----
(***************************************************************************)
(* The room subsystem of CompensationAPI (routers/rooms.js): one room      *)
(* document of the "rooms" collection, the blob store holding version      *)
(* payloads, the "room_audit" collection, and the HTTP requests in flight. *)
(*                                                                         *)
(* A request is a process.  Its steps are cut at the handler's awaits on   *)
(* the rooms collection: the permission gate's findOne, the handler's own  *)
(* findOne (where it has one) and the handler's updateOne.  The audit      *)
(* insert and the response that follow an updateOne touch nothing another  *)
(* request reads, so they are taken in the same step as the updateOne.     *)
(***************************************************************************)
EXTENDS Integers, Sequences, FiniteSets, TLC

VARIABLES
    room,       \* the room document, or NoRoom once it was deleted
    files,      \* blob store: <<subroom_id, version_id>> -> payload
    uploads,    \* writes to the blob store that were started and have not landed
    audit,      \* the room_audit collection, in insertion order
    notifications, \* notifications pushed to accounts, in order
    reqs,       \* slot -> the request it is serving
    last,       \* the request answered most recently, with its response
    started,    \* requests accepted so far
    rooms,      \* the rooms collection as POST /new sees it: creator and name
    accounts,   \* account id -> the player data the social and ban helpers use
    now,        \* Date.now(), in milliseconds
    imageMetadataTemplate, \* the module-level object of the image router
    images,     \* the images collection, in insertion order
    ImageCount  \* the count of the configuration document 'ImageCount'

vars == <<room, files, uploads, audit, notifications, reqs, last, started,
          rooms, accounts, now, imageMetadataTemplate, images, ImageCount>>

\* The state of the image router.
imgVars == <<imageMetadataTemplate, images, ImageCount>>

\* What the handlers of one room leave alone.
otherVars == <<rooms, accounts, now, imageMetadataTemplate, images, ImageCount>>

\* What the helpers on accounts leave alone.
roomVars == <<room, files, uploads, audit, notifications, reqs, rooms,
              imageMetadataTemplate, images, ImageCount>>

\* ------------------------------------------------------------------ bounds

\* Requests accepted in one behaviour.
MaxRequests == 3

\* Connections served concurrently.
Slots == {1, 2}

\* ------------------------------------------------------------------ inputs

\* Account ids.  "dev" carries a token with the developer flag.
Users == {"u1", "u2", "dev"}

Developer(uid) == uid = "dev"

\* The account that created the room.
Creator == "u1"

SubroomNames == {"home", "lounge"}

\* Role names a request may carry; "u2" is a role named like an account id.
RoleNames == {"owner", "everyone", "builder", "u2"}

\* ------------------------------------------------------------------ values

NoRoom == [exists |-> FALSE]

\* A JavaScript object with no own keys.
EmptyObject == [k \in {} |-> TRUE]

Idle == [pc |-> "idle"]

\* obj[key] read in a boolean context: a missing key is undefined, falsy.
Truthy(obj, key) == key \in DOMAIN obj /\ obj[key] = TRUE

\* $set of one key of an object; $unset of one key.
SetKey(obj, key, val) == [k \in DOMAIN obj \cup {key} |-> IF k = key THEN val ELSE obj[k]]

UnsetKey(obj, key) == [k \in DOMAIN obj \ {key} |-> obj[k]]

Resp(status, code) == [status |-> status, code |-> code]

\* A JSON value as the handlers look at it, in a request body or in a stored
\* field that holds numbers and strings alike: its typeof, whether
\* Array.isArray holds, and what it contains (a number by its digits).
Value(type, isArray, content) == [typeof |-> type, isArray |-> isArray, content |-> content]

String(text) == Value("string", FALSE, text)

Number(digits) == Value("number", FALSE, digits)

Undefined == Value("undefined", FALSE, "-")

\* An array by its elements; an object by its key/value pairs.
Array(elements) == Value("object", TRUE, elements)

Object(pairs) == Value("object", FALSE, pairs)

\* The fields of an image's metadata the upload sets from its request.
ImageMetadata(id, takenBy, takenInRoomId, visibility) ==
    [_id |-> id, takenBy |-> takenBy, takenInRoomId |-> takenInRoomId,
     visibility |-> visibility]

\* ------------------------------------------------------------------ POST /new

InitialVersion(author) ==
    [author |-> author, message |-> "Initial Commit", associated_file |-> FALSE]

InitialSubroom(author) ==
    [publicVersionId |-> Number("0"), maxPlayers |-> Number("20"),
     versions |-> <<InitialVersion(author)>>]

EveryoneInitial ==
    [p \in {"viewAndJoin", "createVersions", "setPublicVersion", "viewSettings",
            "viewPermissions", "managePermissions", "useCreationTool"} |-> FALSE]

OwnerInitial ==
    [p \in {"viewAndJoin", "createVersions", "setPublicVersion", "viewSettings",
            "viewPermissions", "managePermissions", "useCreationTool"} |-> TRUE]

NewRoom(creator) ==
    [exists |-> TRUE,
     creator_id |-> creator,
     description |-> "An empty room.",
     subrooms |-> [s \in {"home"} |-> InitialSubroom(creator)],
     homeSubroomId |-> "home",
     rolePermissions |-> [r \in {"everyone", "owner"} |->
                             IF r = "owner" THEN OwnerInitial ELSE EveryoneInitial],
     userPermissions |-> [u \in {creator} |-> "owner"],
     tags |-> <<"community", "custom room">>,
     contentFlags |-> EmptyObject]

\* ------------------------------------------------------------------ audit

Null == "null"

AuditEvent(user_id, type, previous_value, new_value) ==
    [user_id |-> user_id, type |-> type,
     previous_value |-> previous_value, new_value |-> new_value]

roomAuditLog(log, user_id, type, previous_value, new_value) ==
    Append(log, AuditEvent(user_id, type, previous_value, new_value))

\* ------------------------------------------------------------------ the gate

\* The role requiresRoomPermission resolves for the requester.
ResolveRole(rm, uid) ==
    IF uid \in DOMAIN rm.userPermissions THEN rm.userPermissions[uid] ELSE "everyone"

\* rolePermissions[role], which is undefined for a role that is no key.
RolePerms(rm, role) ==
    IF role \in DOMAIN rm.rolePermissions THEN rm.rolePermissions[role] ELSE EmptyObject

\* The gate without its exemption of the role "owner".
GateOutcomeByRecord(rm, uid, permission) ==
    IF rm = NoRoom THEN "not_found"
    ELSE LET role == ResolveRole(rm, uid) IN
         IF Developer(uid) THEN "next"
         ELSE IF role \notin DOMAIN rm.rolePermissions THEN "threw"
         ELSE IF ~Truthy(rm.rolePermissions[role], permission) THEN "denied"
              ELSE "next"

\* What requiresRoomPermission(permission) does with the document it fetched:
\* "next" (the handler runs), "not_found" (no such room), "denied" (the same
\* 404 with the message "Access denied."), or "threw" (the permission lookup
\* on an undefined role record raised, and the request gets no response).
GateOutcome(rm, uid, permission) ==
    IF rm = NoRoom THEN "not_found"
    ELSE LET role == ResolveRole(rm, uid) IN
         IF Developer(uid) THEN "next"
         ELSE IF role \notin DOMAIN rm.rolePermissions THEN "threw"
         ELSE IF ~Truthy(rm.rolePermissions[role], permission) /\ role # "owner"
              THEN "denied"
              ELSE "next"

GateResp(outcome) ==
    IF outcome = "threw" THEN Resp(0, "no_response") ELSE Resp(404, "room_not_found")

\* The permission each route is mounted with.
RoutePermission(op) ==
    CASE op = "create_subroom" -> "manageSubrooms"
      [] op = "delete_subroom" -> "deleteSubrooms"
      [] op = "set_home_subroom" -> "setHomeSubroom"
      [] op \in {"create_role", "update_role", "delete_role", "set_role"}
            -> "managePermissions"
      [] op \in {"create_version", "associate_data"} -> "createVersions"
      [] op = "set_public_version" -> "setPublicVersion"
      [] op = "set_max_players" -> "manageSubrooms"
      [] op = "set_tags" -> "manageTags"
      [] op = "set_content_flags" -> "manageContentFlags"
      [] op = "set_description" -> "editDescription"

\* What a request carries: the route, the token's account, and the route's
\* parameters and body ("-" and <<>> where the route has none).
Request(op, uid, name, target, body) ==
    [op |-> op, actor |-> uid, name |-> name, target |-> target, body |-> body]

\* The response leaves: the slot is free again, and `last` keeps what was
\* asked, what was answered and which sockets were sent 'permission-update'
\* or an urgent notification on the way.
Answered(r, resp, emitted) ==
    [op |-> r.op, actor |-> r.actor, name |-> r.name, target |-> r.target,
     body |-> r.body, resp |-> resp, emitted |-> emitted]

FinishEmit(s, resp, emitted) ==
    /\ reqs' = [reqs EXCEPT ![s] = Idle]
    /\ last' = Answered(reqs[s], resp, emitted)

Finish(s, resp) == FinishEmit(s, resp, {})

\* A new request is served on the lowest free slot.
FreeSlot(s) ==
    /\ reqs[s].pc = "idle"
    /\ \A o \in Slots : o < s => reqs[o].pc # "idle"

\* A request arrives and runs its gate: requiresRoomPermission fetches the
\* room and either answers or sets req.room, req.userRoomRole and
\* req.userRoomPermissions and hands over to the handler.
Gate(s, q) ==
    /\ FreeSlot(s)
    /\ started < MaxRequests
    /\ started' = started + 1
    /\ LET outcome == GateOutcome(room, q.actor, RoutePermission(q.op))
           role == IF room = NoRoom THEN "everyone" ELSE ResolveRole(room, q.actor)
           r == [pc |-> "handler", op |-> q.op, actor |-> q.actor, name |-> q.name,
                 target |-> q.target, body |-> q.body,
                 reqRoom |-> room,
                 userRoomRole |-> IF room = NoRoom THEN EmptyObject
                                  ELSE room.userPermissions,
                 permsDefined |-> room # NoRoom /\ role \in DOMAIN room.rolePermissions,
                 userRoomPermissions |-> IF room = NoRoom THEN EmptyObject
                                         ELSE RolePerms(room, role),
                 room |-> NoRoom]
       IN IF outcome = "next"
          THEN reqs' = [reqs EXCEPT ![s] = r] /\ UNCHANGED last
          ELSE last' = Answered(q, GateResp(outcome), {}) /\ UNCHANGED reqs
    /\ UNCHANGED <<room, files, uploads, audit, notifications>>
    /\ UNCHANGED otherVars

\* An updateOne with upsert: a deleted room is inserted again.
UpdateOneUpsert(rm, changed) == IF rm = NoRoom THEN [exists |-> TRUE] ELSE changed

\* collection.updateOne on the room's _id: a deleted room matches nothing.
UpdateOne(rm, changed) == IF rm = NoRoom THEN NoRoom ELSE changed

\* ------------------------------------------------------------------ subrooms

\* POST /room/:id/subrooms/:name/create
CreateSubroom(s) ==
    LET r == reqs[s] IN
    /\ r.pc = "handler" /\ r.op = "create_subroom"
    /\ IF r.name \in DOMAIN r.reqRoom.subrooms
       THEN /\ Finish(s, Resp(400, "invalid_input"))
            /\ UNCHANGED <<room, files, uploads, audit, notifications, started>>
       ELSE /\ room' = UpdateOne(room,
                 [room EXCEPT !.subrooms = SetKey(@, r.name, InitialSubroom(r.actor))])
            /\ audit' = roomAuditLog(audit, r.actor, "subroom_created", Null, Null)
            /\ Finish(s, Resp(200, "success"))
            /\ UNCHANGED <<files, uploads, notifications, started>>
    /\ UNCHANGED otherVars

\* POST /room/:id/subrooms/:name/delete
DeleteSubroom(s) ==
    LET r == reqs[s] IN
    /\ r.pc = "handler" /\ r.op = "delete_subroom"
    /\ IF r.name \notin DOMAIN r.reqRoom.subrooms
       THEN /\ Finish(s, Resp(404, "not_found"))
            /\ UNCHANGED <<room, files, uploads, audit, notifications, started>>
       ELSE IF r.name = r.reqRoom.homeSubroomId
       THEN /\ Finish(s, Resp(400, "invalid_input"))
            /\ UNCHANGED <<room, files, uploads, audit, notifications, started>>
       ELSE /\ room' = UpdateOne(room, [room EXCEPT !.subrooms = UnsetKey(@, r.name)])
            /\ audit' = roomAuditLog(audit, r.actor, "subroom_deleted",
                                    r.reqRoom.subrooms[r.name], Null)
            /\ Finish(s, Resp(200, "success"))
            /\ UNCHANGED <<files, uploads, notifications, started>>
    /\ UNCHANGED otherVars

\* POST /room/:id/set-home-subroom/:name
SetHomeSubroom(s) ==
    LET r == reqs[s] IN
    /\ r.pc = "handler" /\ r.op = "set_home_subroom"
    /\ IF r.name \notin DOMAIN r.reqRoom.subrooms
       THEN /\ Finish(s, Resp(404, "not_found"))
            /\ UNCHANGED <<room, files, uploads, audit, notifications, started>>
       ELSE /\ room' = UpdateOne(room, [room EXCEPT !.homeSubroomId = r.name])
            /\ audit' = roomAuditLog(audit, r.actor, "home_subroom_updated",
                                    r.reqRoom.homeSubroomId, r.name)
            /\ Finish(s, Resp(200, "success"))
            /\ UNCHANGED <<files, uploads, notifications, started>>
    /\ UNCHANGED otherVars

\* ------------------------------------------------------------------ roles

\* The handler's own findOne: it keeps the document it got in `room`.
FindOne(s) ==
    /\ reqs' = [reqs EXCEPT ![s].pc = "write", ![s].room = room]
    /\ UNCHANGED last

\* The catch block of a handler: a TypeError on a null document ends in 500.
InternalError == Resp(500, "internal_error")

ReservedRoleOwnerOnly(name) == name = "owner"

ReservedRole(name) == name \in {"owner", "everyone"}

\* PUT /room/:id/roles/new, up to its findOne.
CreateRoleRead(s) ==
    LET r == reqs[s] IN
    /\ r.pc = "handler" /\ r.op = "create_role"
    /\ IF ReservedRole(r.name)
       THEN Finish(s, Resp(400, "invalid_input"))
       ELSE FindOne(s)
    /\ UNCHANGED <<room, files, uploads, audit, notifications, started>>
    /\ UNCHANGED otherVars

\* PUT /room/:id/roles/new, from its findOne on.
CreateRoleWrite(s) ==
    LET r == reqs[s] IN
    /\ r.pc = "write" /\ r.op = "create_role"
    /\ IF r.room = NoRoom
       THEN /\ Finish(s, InternalError)
            /\ UNCHANGED <<room, files, uploads, audit, notifications, started>>
       ELSE IF r.name \in DOMAIN r.room.rolePermissions
       THEN /\ Finish(s, Resp(400, "invalid_input"))
            /\ UNCHANGED <<room, files, uploads, audit, notifications, started>>
       ELSE /\ room' = UpdateOne(room,
                 [room EXCEPT !.rolePermissions = SetKey(@, r.name, EmptyObject)])
            /\ audit' = roomAuditLog(audit, r.actor, "role_created", Null, r.name)
            /\ Finish(s, Resp(200, "success"))
            /\ UNCHANGED <<files, uploads, notifications, started>>
    /\ UNCHANGED otherVars

\* A permission value as the JSON body carries it: typeof element is
\* 'boolean' for the literals true and false only.
IsBoolean(element) == element \in {"true", "false"}

ToBoolean(element) == element = "true"

\* An object compared with a string by != is first converted to a string.
ToPrimitive(obj) == "[object Object]"

\* req.userRoomRole != "owner", req.userRoomRole being what the gate stored.
NotOwnerRole(userRoomRole) == ToPrimitive(userRoomRole) # "owner"

\* The key loop without the requester's own permissions as a cap.
RECURSIVE UpdateLoopUncapped(_, _, _)
UpdateLoopUncapped(permissions, r, record) ==
    IF permissions = <<>> THEN [verdict |-> "ok", record |-> record]
    ELSE LET key == permissions[1][1]
             element == permissions[1][2]
         IN IF key = "__proto__" \/ ~IsBoolean(element)
            THEN [verdict |-> "invalid_input", record |-> record]
            ELSE UpdateLoopUncapped(Tail(permissions), r,
                                    SetKey(record, key, ToBoolean(element)))

\* The key loop of the update handler over the body's `permissions`, in key
\* order: the verdict ("ok", or the failure's code) and the role's record as
\* the loop left it.
RECURSIVE UpdateLoop(_, _, _)
UpdateLoop(permissions, r, record) ==
    IF permissions = <<>> THEN [verdict |-> "ok", record |-> record]
    ELSE LET key == permissions[1][1]
             element == permissions[1][2]
         IN IF ~r.permsDefined
            THEN [verdict |-> "internal_error", record |-> record]
            ELSE IF /\ ~Truthy(r.userRoomPermissions, key)
                    /\ NotOwnerRole(r.userRoomRole)
                    /\ ~Developer(r.actor)
            THEN [verdict |-> "access_denied", record |-> record]
            ELSE IF key = "__proto__"
            THEN [verdict |-> "invalid_input", record |-> record]
            ELSE IF ~IsBoolean(element)
            THEN [verdict |-> "invalid_input", record |-> record]
            ELSE UpdateLoop(Tail(permissions), r, SetKey(record, key, ToBoolean(element)))

\* The accounts whose stored role is `role`: the sockets the handler emits
\* 'permission-update' to.
UsersWithRole(rm, role) == {u \in DOMAIN rm.userPermissions : rm.userPermissions[u] = role}

\* POST /room/:id/roles/:role_name/update, up to its findOne.
UpdateRoleRead(s) ==
    LET r == reqs[s] IN
    /\ r.pc = "handler" /\ r.op = "update_role"
    /\ IF r.name = "__proto__"
       THEN Finish(s, Resp(400, "invalid_input"))
       ELSE IF r.name = "owner"
       THEN Finish(s, Resp(400, "access_denied"))
       ELSE FindOne(s)
    /\ UNCHANGED <<room, files, uploads, audit, notifications, started>>
    /\ UNCHANGED otherVars

\* POST /room/:id/roles/:role_name/update, from its findOne on.
UpdateRoleWrite(s) ==
    LET r == reqs[s] IN
    /\ r.pc = "write" /\ r.op = "update_role"
    /\ IF r.room = NoRoom
       THEN /\ Finish(s, InternalError)
            /\ UNCHANGED <<room, files, uploads, audit, notifications, started>>
       ELSE IF r.name \notin DOMAIN r.room.rolePermissions
       THEN /\ Finish(s, Resp(404, "not_found"))
            /\ UNCHANGED <<room, files, uploads, audit, notifications, started>>
       ELSE LET out == UpdateLoop(r.body, r, r.room.rolePermissions[r.name]) IN
            IF out.verdict # "ok"
            THEN /\ Finish(s, Resp(IF out.verdict = "internal_error" THEN 500 ELSE 400,
                                   out.verdict))
                 /\ UNCHANGED <<room, files, uploads, audit, notifications, started>>
            ELSE /\ room' = UpdateOne(room,
                      [room EXCEPT !.rolePermissions =
                          [r.room.rolePermissions EXCEPT ![r.name] = out.record]])
                 /\ audit' = roomAuditLog(audit, r.actor, "role_permissions_updated",
                                          RolePerms(r.reqRoom, r.name), out.record)
                 /\ FinishEmit(s, Resp(200, "success"), UsersWithRole(r.room, r.name))
                 /\ UNCHANGED <<files, uploads, notifications, started>>
    /\ UNCHANGED otherVars

\* The loop of the delete handler over Object.keys(room.userPermissions): the
\* accounts it resets to "everyone" and notifies.
DeleteRoleUsers(rm, role_name) == {key \in DOMAIN rm.userPermissions : key = role_name}

\* $set of userPermissions.<uid> to "everyone" for each uid of `users`.
ResetUsers(userPermissions, users) ==
    [u \in DOMAIN userPermissions \cup users |->
        IF u \in users THEN "everyone" ELSE userPermissions[u]]

\* POST /room/:id/roles/:role_name/delete, up to its findOne.
DeleteRoleRead(s) ==
    LET r == reqs[s] IN
    /\ r.pc = "handler" /\ r.op = "delete_role"
    /\ IF ReservedRole(r.name)
       THEN Finish(s, Resp(400, "invalid_input"))
       ELSE FindOne(s)
    /\ UNCHANGED <<room, files, uploads, audit, notifications, started>>
    /\ UNCHANGED otherVars

\* POST /room/:id/roles/:role_name/delete, from its findOne on.  An update
\* whose $set is empty is refused by MongoDB servers before 5.0 and is a
\* no-op for that operator from 5.0 on: both are outcomes of the deployment.
DeleteRoleWrite(s) ==
    LET r == reqs[s] IN
    /\ r.pc = "write" /\ r.op = "delete_role"
    /\ IF r.room = NoRoom
       THEN /\ Finish(s, InternalError)
            /\ UNCHANGED <<room, files, uploads, audit, notifications, started>>
       ELSE LET users == DeleteRoleUsers(r.room, r.name) IN
            \/ /\ users = {}
               /\ Finish(s, InternalError)
               /\ UNCHANGED <<room, files, uploads, audit, notifications, started>>
            \/ /\ room' = UpdateOne(room,
                      [room EXCEPT !.rolePermissions = UnsetKey(@, r.name),
                                   !.userPermissions = ResetUsers(@, users)])
               /\ audit' = roomAuditLog(audit, r.actor, "role_deleted",
                                        RolePerms(r.room, r.name), Null)
               /\ FinishEmit(s, Resp(200, "success"), users)
               /\ UNCHANGED <<files, uploads, notifications, started>>
    /\ UNCHANGED otherVars

\* The two refusals of set-role that need no document: the role "owner",
\* and the requester's own account as the target.
SetRoleRefusedSelfOnly(r) == r.target = r.actor

SetRoleRefused(r) == r.name = "owner" \/ r.target = r.actor

\* POST /room/:id/user/:user_id/set-role/:role_name, up to its findOne.
SetRoleRead(s) ==
    LET r == reqs[s] IN
    /\ r.pc = "handler" /\ r.op = "set_role"
    /\ IF SetRoleRefused(r)
       THEN Finish(s, Resp(403, "access_denied"))
       ELSE FindOne(s)
    /\ UNCHANGED <<room, files, uploads, audit, notifications, started>>
    /\ UNCHANGED otherVars

\* POST /room/:id/user/:user_id/set-role/:role_name, from its findOne on.
SetRoleWrite(s) ==
    LET r == reqs[s] IN
    /\ r.pc = "write" /\ r.op = "set_role"
    /\ IF r.room = NoRoom
       THEN /\ Finish(s, InternalError)
            /\ UNCHANGED <<room, files, uploads, audit, notifications, started>>
       ELSE IF r.target = r.room.creator_id
       THEN /\ Finish(s, Resp(403, "access_denied"))
            /\ UNCHANGED <<room, files, uploads, audit, notifications, started>>
       ELSE LET current_role == ResolveRole(r.room, r.target) IN
            IF current_role = "owner"
            THEN /\ Finish(s, Resp(403, "access_denied"))
                 /\ UNCHANGED <<room, files, uploads, audit, notifications, started>>
            ELSE /\ room' = UpdateOne(room,
                      [room EXCEPT !.userPermissions =
                          IF r.name = "everyone" THEN UnsetKey(@, r.target)
                          ELSE SetKey(@, r.target, r.name)])
                 /\ audit' = roomAuditLog(audit, r.actor, "user_roles_updated",
                                          current_role, r.name)
                 /\ FinishEmit(s, Resp(200, "success"), {r.target})
                 /\ UNCHANGED <<files, uploads, notifications, started>>
    /\ UNCHANGED otherVars

\* ------------------------------------------------------------------ versions

\* Number.prototype.toString and parseInt, on the values the model uses.
NumberToString(n) == <<"0", "1", "2", "3", "4", "5", "6">>[n + 1]

IsNaN(str) == str \notin {"-1", "0", "1", "2", "3", "20", "2.5"}

ParseInt(str) ==
    CASE str = "-1" -> -1 [] str = "0" -> 0 [] str = "1" -> 1
      [] str = "2" -> 2 [] str = "3" -> 3 [] str = "20" -> 20
      [] str = "2.5" -> 2

\* A number as the store keeps it, by its digits.
NumberOf(n) ==
    CASE n = -1 -> Number("-1") [] n = 20 -> Number("20")
      [] OTHER -> Number(NumberToString(n))

\* Buffer.from(text, 'base64') on the bodies the model uses.
Base64Decode(text) ==
    CASE text = "AAEC" -> <<0, 1, 2>>
      [] text = "AwQF" -> <<3, 4, 5>>

\* The typeof checks of the version metadata: `spawn` with a numeric position
\* and rotation, and `collaborators` an array.
SpawnValid(metadata) == metadata.spawn = "numeric"

CollaboratorsValid(metadata) == metadata.collaborators = "array"

\* A spawn: its position (x, y, z) and its rotation (x, y, z, w), as digits.
Spawn(position, rotation) == [position |-> position, rotation |-> rotation]

\* The spawn decoupled_metadata starts with.
DefaultSpawn == Spawn(<<"0", "0", "0">>, <<"0", "0", "0", "1">>)

\* decoupled_metadata as the handler fills it in: the author is the token's
\* account, whatever the body says; the body's spawn and collaborators are
\* checked and never copied.
DecoupledMetadata(metadata, uid) ==
    [baseSceneIndex |-> IF /\ "baseSceneIndex" \in DOMAIN metadata
                           /\ metadata.baseSceneIndex.typeof = "number"
                        THEN metadata.baseSceneIndex ELSE Number("9"),
     spawn |-> DefaultSpawn,
     author |-> uid,
     message |-> IF "shortHandCommitMessage" \in DOMAIN metadata
                 THEN metadata.shortHandCommitMessage ELSE "No Message",
     longHandCommitMessage |-> IF "longHandCommitMessage" \in DOMAIN metadata
                               THEN metadata.longHandCommitMessage
                               ELSE "No Description",
     collaborators |-> <<>>,
     associated_file |-> FALSE]

\* $push to "subrooms.<id>.versions": the array grows by one, and a path
\* that is not there is created.
PushVersion(subrooms, subroom_id, version) ==
    IF subroom_id \in DOMAIN subrooms
    THEN [subrooms EXCEPT ![subroom_id].versions = Append(@, version)]
    ELSE SetKey(subrooms, subroom_id, [versions |-> <<version>>])

\* The index $push stores the version at, -1 when no document matches.
PushIndex(rm, subroom_id) ==
    IF rm = NoRoom THEN -1
    ELSE IF subroom_id \in DOMAIN rm.subrooms THEN Len(rm.subrooms[subroom_id].versions)
    ELSE 0

\* PUT /room/:id/subrooms/:subroom_id/versions/new, up to its findOne.
CreateVersionRead(s) ==
    LET r == reqs[s] IN
    /\ r.pc = "handler" /\ r.op = "create_version"
    /\ IF ~SpawnValid(r.body) \/ ~CollaboratorsValid(r.body)
       THEN Finish(s, Resp(400, "invalid_metadata"))
       ELSE FindOne(s)
    /\ UNCHANGED <<room, files, uploads, audit, notifications, started>>
    /\ UNCHANGED otherVars

\* An id taken from the list as it is when the $push lands.
ReturnedIdAtPush(r) == NumberToString(PushIndex(room, r.name))

\* The id the handler answers with: the length of the versions list in the
\* document its findOne returned.
ReturnedId(r) == NumberToString(Len(r.room.subrooms[r.name].versions))

\* PUT /room/:id/subrooms/:subroom_id/versions/new, from its findOne on.  The
\* answer's id is the length of the list the findOne returned; `index` keeps,
\* beside the answer, where the $push stored the version.
CreateVersionWrite(s) ==
    LET r == reqs[s] IN
    /\ r.pc = "write" /\ r.op = "create_version"
    /\ IF r.room = NoRoom
       THEN /\ Finish(s, InternalError)
            /\ UNCHANGED <<room, files, uploads, audit, notifications, started>>
       ELSE IF r.name \notin DOMAIN r.room.subrooms
       THEN /\ Finish(s, Resp(404, "nonexistent_subroom"))
            /\ UNCHANGED <<room, files, uploads, audit, notifications, started>>
       ELSE /\ room' = UpdateOne(room,
                 [room EXCEPT !.subrooms =
                     PushVersion(@, r.name, DecoupledMetadata(r.body, r.actor))])
            /\ audit' = roomAuditLog(audit, r.actor, "changeset_created", Null, Null)
            /\ reqs' = [reqs EXCEPT ![s] = Idle]
            /\ last' = SetKey(Answered(r,
                                 [status |-> 200, code |-> "success",
                                  id |-> ReturnedId(r)],
                                 {}),
                              "index", PushIndex(room, r.name))
            /\ UNCHANGED <<files, uploads, notifications, started>>
    /\ UNCHANGED otherVars

BlobPath(subroom_id, version_id) == <<subroom_id, version_id>>

\* $set of "subrooms.<id>.versions.<n>.associated_file" to true; a path
\* that is not there is created.
SetAssociated(subrooms, subroom_id, version_id) ==
    IF /\ subroom_id \in DOMAIN subrooms
       /\ version_id + 1 \in DOMAIN subrooms[subroom_id].versions
    THEN [subrooms EXCEPT ![subroom_id].versions[version_id + 1].associated_file = TRUE]
    ELSE SetKey(subrooms, subroom_id,
                [versions |-> [i \in {version_id + 1} |-> [associated_file |-> TRUE]]])

\* POST .../versions/:version_id/associate-data, up to the updateOne it
\* awaits: the checks on the document its findOne returned, and
\* file.end(buffer), which starts the write to the blob store and is not
\* awaited.
AssociateDataRead(s) ==
    LET r == reqs[s] IN
    /\ r.pc = "handler" /\ r.op = "associate_data"
    /\ IF IsNaN(r.target)
       THEN /\ Finish(s, Resp(400, "invalid_parameter"))
            /\ UNCHANGED uploads
       ELSE IF room = NoRoom
       THEN /\ Finish(s, InternalError)
            /\ UNCHANGED uploads
       ELSE IF r.name \notin DOMAIN room.subrooms
       THEN /\ Finish(s, Resp(403, "nonexistent_subroom"))
            /\ UNCHANGED uploads
       ELSE LET versions == room.subrooms[r.name].versions
                version_id == ParseInt(r.target)
            IN IF Len(versions) - 1 < version_id
               THEN /\ Finish(s, Resp(404, "version_not_found"))
                    /\ UNCHANGED uploads
               ELSE IF version_id < 0
               THEN /\ Finish(s, InternalError)
                    /\ UNCHANGED uploads
               ELSE IF versions[version_id + 1].associated_file
               THEN /\ Finish(s, Resp(400, "file_already_associated"))
                    /\ UNCHANGED uploads
               ELSE /\ FindOne(s)
                    /\ uploads' = uploads \cup
                          {[path |-> BlobPath(r.name, version_id),
                            payload |-> Base64Decode(r.body)]}
    /\ UNCHANGED <<room, files, audit, notifications, started>>
    /\ UNCHANGED otherVars

\* POST .../versions/:version_id/associate-data: its updateOne and answer.
AssociateDataWrite(s) ==
    LET r == reqs[s] IN
    /\ r.pc = "write" /\ r.op = "associate_data"
    /\ room' = UpdateOne(room,
          [room EXCEPT !.subrooms = SetAssociated(@, r.name, ParseInt(r.target))])
    /\ Finish(s, Resp(200, "success"))
    /\ UNCHANGED <<files, uploads, audit, notifications, started>>
    /\ UNCHANGED otherVars

\* A write to the blob store lands: the file at the path is replaced.
UploadLands(u) ==
    /\ u \in uploads
    /\ files' = SetKey(files, u.path, u.payload)
    /\ uploads' = uploads \ {u}
    /\ UNCHANGED <<room, audit, notifications, reqs, last, started>>
    /\ UNCHANGED otherVars

\* $set of "subrooms.<id>.<field>": a path that is not there is created.
SetPath(subrooms, subroom_id, field, val) ==
    IF subroom_id \in DOMAIN subrooms
    THEN [subrooms EXCEPT ![subroom_id] = SetKey(@, field, val)]
    ELSE SetKey(subrooms, subroom_id, [f \in {field} |-> val])

\* length <= parseInt(text): a comparison with NaN is false.
LengthAtMost(length, text) == ~IsNaN(text) /\ length <= ParseInt(text)

\* POST /room/:id/subrooms/:subroom_id/versions/public, up to its findOne:
\* the body's id must be a string.
SetPublicVersionRead(s) ==
    LET r == reqs[s] IN
    /\ r.pc = "handler" /\ r.op = "set_public_version"
    /\ IF r.body.typeof # "string"
       THEN Finish(s, Resp(400, "invalid_input"))
       ELSE FindOne(s)
    /\ UNCHANGED <<room, files, uploads, audit, notifications, started>>
    /\ UNCHANGED otherVars

\* POST /room/:id/subrooms/:subroom_id/versions/public, from its findOne on:
\* the checks on the document it read, the $set of the id as it came, and
\* the audit event whose previous value is taken from the document it read.
SetPublicVersionWrite(s) ==
    LET r == reqs[s] IN
    /\ r.pc = "write" /\ r.op = "set_public_version"
    /\ IF r.room = NoRoom
       THEN /\ Finish(s, Resp(404, "room_not_found"))
            /\ UNCHANGED <<room, audit>>
       ELSE IF r.name \notin DOMAIN r.room.subrooms
       THEN /\ Finish(s, Resp(404, "nonexistent_subroom"))
            /\ UNCHANGED <<room, audit>>
       ELSE IF LengthAtMost(Len(r.room.subrooms[r.name].versions), r.body.content)
       THEN /\ Finish(s, Resp(400, "nonexistent_version"))
            /\ UNCHANGED <<room, audit>>
       ELSE /\ room' = UpdateOne(room,
                 [room EXCEPT !.subrooms =
                     SetPath(@, r.name, "publicVersionId", r.body)])
            /\ audit' = roomAuditLog(audit, r.actor, "public_version_updated",
                                     r.room.subrooms[r.name].publicVersionId, r.body)
            /\ Finish(s, Resp(200, "success"))
    /\ UNCHANGED <<files, uploads, notifications, started>>
    /\ UNCHANGED otherVars

\* POST /room/:id/subrooms/:name/set-max-players/:count: the checks on the
\* document the gate fetched, the $set of parseInt(count), the audit event
\* and the answer.
SetMaxPlayers(s) ==
    LET r == reqs[s] IN
    /\ r.pc = "handler" /\ r.op = "set_max_players"
    /\ IF r.name \notin DOMAIN r.reqRoom.subrooms
       THEN /\ Finish(s, Resp(404, "not_found"))
            /\ UNCHANGED <<room, audit>>
       ELSE IF IsNaN(r.target)
       THEN /\ Finish(s, Resp(400, "invalid_input"))
            /\ UNCHANGED <<room, audit>>
       ELSE /\ room' = UpdateOne(room,
                 [room EXCEPT !.subrooms =
                     SetPath(@, r.name, "maxPlayers", NumberOf(ParseInt(r.target)))])
            /\ audit' = roomAuditLog(audit, r.actor, "subroom_max_players_updated",
                                     r.reqRoom.subrooms[r.name].maxPlayers,
                                     NumberOf(ParseInt(r.target)))
            /\ Finish(s, Resp(200, "success"))
    /\ UNCHANGED <<files, uploads, notifications, started>>
    /\ UNCHANGED otherVars

\* ------------------------------------------------------------------ metadata

\* The checks of POST /room/:id/tags: an array whose elements are strings.
TagsValid(tags) ==
    /\ tags.typeof = "object" /\ tags.isArray
    /\ \A i \in 1..Len(tags.content) : tags.content[i].typeof = "string"

\* What $set stores for a valid tags body.
TagsStored(tags) == [i \in 1..Len(tags.content) |-> tags.content[i].content]

\* POST /room/:id/tags: the checks, the updateOne and the answer.  The
\* handler writes no audit event.
SetTags(s) ==
    LET r == reqs[s] IN
    /\ r.pc = "handler" /\ r.op = "set_tags"
    /\ IF ~TagsValid(r.body)
       THEN Finish(s, Resp(400, "invalid_input")) /\ UNCHANGED room
       ELSE /\ room' = UpdateOne(room, [room EXCEPT !.tags = TagsStored(r.body)])
            /\ Finish(s, Resp(200, "success"))
    /\ UNCHANGED <<files, uploads, audit, notifications, started>>
    /\ UNCHANGED otherVars

\* The checks of POST /room/:id/content_flags: an object that is no array,
\* whose values are strings.
FlagsValid(flags) ==
    /\ flags.typeof = "object" /\ ~flags.isArray
    /\ \A i \in 1..Len(flags.content) : flags.content[i][2].typeof = "string"

FlagsStored(flags) ==
    [k \in {flags.content[i][1] : i \in 1..Len(flags.content)} |->
        flags.content[CHOOSE i \in 1..Len(flags.content) :
                          flags.content[i][1] = k][2].content]

\* A content_flags handler that records its audit event before it looks
\* at the body.
SetContentFlagsAuditFirst(s) ==
    LET r == reqs[s] IN
    /\ r.pc = "handler" /\ r.op = "set_content_flags"
    /\ audit' = roomAuditLog(audit, r.actor, "content_flags_updated", Null,
                             IF FlagsValid(r.body) THEN FlagsStored(r.body) ELSE Null)
    /\ IF ~FlagsValid(r.body)
       THEN Finish(s, Resp(400, "invalid_input"))
       ELSE /\ reqs' = [reqs EXCEPT ![s].pc = "write"]
            /\ UNCHANGED last
    /\ UNCHANGED <<room, files, uploads, notifications, started>>
    /\ UNCHANGED otherVars

\* POST /room/:id/content_flags, up to its updateOne: the checks, and the
\* audit event, which is written before the change.
SetContentFlagsAudit(s) ==
    LET r == reqs[s] IN
    /\ r.pc = "handler" /\ r.op = "set_content_flags"
    /\ IF ~FlagsValid(r.body)
       THEN Finish(s, Resp(400, "invalid_input")) /\ UNCHANGED audit
       ELSE /\ audit' = roomAuditLog(audit, r.actor, "content_flags_updated",
                                     Null, FlagsStored(r.body))
            /\ reqs' = [reqs EXCEPT ![s].pc = "write"]
            /\ UNCHANGED last
    /\ UNCHANGED <<room, files, uploads, notifications, started>>
    /\ UNCHANGED otherVars

\* POST /room/:id/content_flags: its updateOne and answer.
SetContentFlagsWrite(s) ==
    LET r == reqs[s] IN
    /\ r.pc = "write" /\ r.op = "set_content_flags"
    /\ room' = UpdateOne(room, [room EXCEPT !.contentFlags = FlagsStored(r.body)])
    /\ Finish(s, Resp(200, "success"))
    /\ UNCHANGED <<files, uploads, audit, notifications, started>>
    /\ UNCHANGED otherVars

\* POST /room/:id/description: the check, the updateOne, the audit event
\* and the answer.
SetDescription(s) ==
    LET r == reqs[s] IN
    /\ r.pc = "handler" /\ r.op = "set_description"
    /\ IF r.body.typeof # "string"
       THEN Finish(s, Resp(400, "invalid_input")) /\ UNCHANGED <<room, audit>>
       ELSE /\ room' = UpdateOne(room, [room EXCEPT !.description = r.body.content])
            /\ audit' = roomAuditLog(audit, r.actor, "description_updated",
                                     Null, r.body.content)
            /\ Finish(s, Resp(200, "success"))
    /\ UNCHANGED <<files, uploads, notifications, started>>
    /\ UNCHANGED otherVars

\* ------------------------------------------------------------------ views

\* A request without a token: authenticateToken_optional leaves req.user
\* undefined.
Anonymous == "anon"

\* A response with its message, and a response with a body.
Reply(status, code, message) == [status |-> status, code |-> code, message |-> message]

Body(status, body) == [status |-> status, code |-> "body", body |-> body]

\* res.sendStatus(500) of a catch block, and a middleware that threw before
\* answering.
Status500 == Reply(500, "-", "Internal Server Error")

NoResponse == Reply(0, "no_response", "-")

\* The check of GET /room/:room_id/info on the document it fetched.
InfoOutcome(rm, uid) ==
    IF rm = NoRoom THEN "not_found"
    ELSE LET role == IF uid = Anonymous THEN "everyone" ELSE ResolveRole(rm, uid) IN
         IF role \notin DOMAIN rm.rolePermissions THEN "threw"
         ELSE IF uid = Anonymous
         THEN IF ~Truthy(rm.rolePermissions[role], "viewAndJoin")
              THEN "forbidden" ELSE "next"
         ELSE IF ~Truthy(rm.rolePermissions[role], "viewAndJoin") /\ uid # rm.creator_id
              THEN "forbidden" ELSE "next"

InfoReply(outcome) ==
    CASE outcome = "not_found" -> Reply(404, "-", "room_not_found")
      [] outcome = "forbidden" -> Reply(403, "-", "invalid_permissions")
      [] outcome = "threw" -> Status500

\* The projection the second findOne of room info asks for; null when the
\* room is gone by then.
Projection(rm) ==
    IF rm = NoRoom THEN [null |-> TRUE]
    ELSE [description |-> rm.description, creator_id |-> rm.creator_id,
          homeSubroomId |-> rm.homeSubroomId]

\* A request that has passed its check waits in a slot for its next read.
Admitted(q, rm) ==
    [pc |-> "handler", op |-> q.op, actor |-> q.actor, name |-> q.name,
     target |-> q.target, body |-> q.body,
     reqRoom |-> rm,
     userRoomRole |-> IF rm = NoRoom THEN EmptyObject ELSE rm.userPermissions,
     permsDefined |-> rm # NoRoom /\ q.actor # Anonymous
                       /\ ResolveRole(rm, q.actor) \in DOMAIN rm.rolePermissions,
     userRoomPermissions |-> IF rm = NoRoom \/ q.actor = Anonymous THEN EmptyObject
                             ELSE RolePerms(rm, ResolveRole(rm, q.actor)),
     room |-> NoRoom]

\* A request arrives at a route that runs `check` on the room it fetches.
Arrive(s, q, outcome, reply) ==
    /\ FreeSlot(s)
    /\ started < MaxRequests
    /\ started' = started + 1
    /\ IF outcome = "next"
       THEN reqs' = [reqs EXCEPT ![s] = Admitted(q, room)] /\ UNCHANGED last
       ELSE last' = Answered(q, reply, {}) /\ UNCHANGED reqs
    /\ UNCHANGED <<room, files, uploads, audit, notifications>>
    /\ UNCHANGED otherVars

\* GET /room/:room_id/info: the first findOne and the check.
InfoStart(s, q) ==
    /\ q.op = "info"
    /\ LET outcome == InfoOutcome(room, q.actor) IN
       Arrive(s, q, outcome, IF outcome = "next" THEN NoResponse ELSE InfoReply(outcome))

\* GET /room/:room_id/info: the second findOne and the answer.
InfoAnswer(s) ==
    /\ reqs[s].pc = "handler" /\ reqs[s].op = "info"
    /\ Finish(s, Body(200, Projection(room)))
    /\ UNCHANGED <<room, files, uploads, audit, notifications, started>>
    /\ UNCHANGED otherVars

\* canViewRoom on the document it fetched.
ViewOutcome(rm, uid) ==
    IF rm = NoRoom THEN "not_found"
    ELSE LET role == ResolveRole(rm, uid) IN
         IF role \notin DOMAIN rm.rolePermissions THEN "threw"
         ELSE IF Truthy(rm.rolePermissions[role], "viewAndJoin") \/ Developer(uid)
              THEN "next" ELSE "denied"

ViewReply(outcome) ==
    CASE outcome = "not_found" -> Reply(404, "room_not_found", "You did not specify a room.")
      [] outcome = "denied" -> Reply(404, "room_not_found", "You did not specify a room.")
      [] outcome = "threw" -> NoResponse

\* A request arrives at a route mounted behind canViewRoom.
ViewGate(s, q) ==
    /\ q.op \in {"my_permissions", "verify_subroom_link"}
    /\ LET outcome == ViewOutcome(room, q.actor) IN
       Arrive(s, q, outcome, IF outcome = "next" THEN NoResponse ELSE ViewReply(outcome))

\* GET /room/:id/my-permissions.
MyPermissions(s) ==
    /\ reqs[s].pc = "handler" /\ reqs[s].op = "my_permissions"
    /\ Finish(s, Body(200, reqs[s].userRoomPermissions))
    /\ UNCHANGED <<room, files, uploads, audit, notifications, started>>
    /\ UNCHANGED otherVars

\* GET /room/:id/verify-subroom-link/:to: its own findOne and the answer.
VerifySubroomLink(s) ==
    /\ reqs[s].pc = "handler" /\ reqs[s].op = "verify_subroom_link"
    /\ Finish(s, IF room = NoRoom THEN Reply(500, "internal_error", "-")
                 ELSE IF reqs[s].name \in DOMAIN room.subrooms
                 THEN Reply(200, "success", "This subroom link is valid.")
                 ELSE Reply(404, "not_found", "No subroom with that ID exists!"))
    /\ UNCHANGED <<room, files, uploads, audit, notifications, started>>
    /\ UNCHANGED otherVars

\* The version a download selector names in the fetched document: 'latest'
\* is replaced by the subroom's publicVersionId as it is stored.
DownloadVersion(rm, subroom_id, version_id) ==
    IF version_id = "latest" THEN rm.subrooms[subroom_id].publicVersionId.content
    ELSE version_id

\* subroom.versions[version_id]?.associated_file: a key that is no index of
\* the list reads undefined.
HasFile(versions, version_id) ==
    /\ ~IsNaN(version_id)
    /\ ParseInt(version_id) + 1 \in DOMAIN versions
    /\ versions[ParseInt(version_id) + 1].associated_file

\* GET .../versions/:version_id/download on the document it fetched: the
\* route has no permission check.
DownloadOutcome(rm, subroom_id, version_id) ==
    IF rm = NoRoom THEN "not_found"
    ELSE IF subroom_id \notin DOMAIN rm.subrooms THEN "subroom_not_found"
    ELSE IF HasFile(rm.subrooms[subroom_id].versions,
                    DownloadVersion(rm, subroom_id, version_id))
         THEN "next" ELSE "no_file"

DownloadReply(outcome) ==
    CASE outcome = "not_found" -> Reply(404, "-", "room_not_found")
      [] outcome = "subroom_not_found" -> Reply(404, "-", "subroom_not_found")
      [] outcome = "no_file" -> Reply(204, "no_file_associated_with_version", "-")

DownloadStart(s, q) ==
    /\ q.op = "download"
    /\ LET outcome == DownloadOutcome(room, q.name, q.target) IN
       Arrive(s, q, outcome,
              IF outcome = "next" THEN NoResponse ELSE DownloadReply(outcome))

\* file.download() of the version the selector named in the fetched
\* document, and the answer; a file that is not in the store yet rejects.
DownloadAnswer(s) ==
    LET r == reqs[s]
        path == BlobPath(r.name, ParseInt(DownloadVersion(r.reqRoom, r.name, r.target)))
    IN
    /\ r.pc = "handler" /\ r.op = "download"
    /\ Finish(s, IF path \in DOMAIN files THEN Body(200, files[path]) ELSE Status500)
    /\ UNCHANGED <<room, files, uploads, audit, notifications, started>>
    /\ UNCHANGED otherVars

\* The filter of GET /search applied to the room.
SearchOutcome(rm, uid) ==
    IF rm = NoRoom THEN "hidden"
    ELSE LET role == IF uid = Anonymous THEN "everyone" ELSE ResolveRole(rm, uid) IN
         IF role \notin DOMAIN rm.rolePermissions THEN "threw"
         ELSE IF Truthy(rm.rolePermissions[role], "viewAndJoin")
                 \/ (uid # Anonymous /\ Developer(uid))
              THEN "listed" ELSE "hidden"

\* GET /search?mode=most-visited: one find and the answer.
Search(s, q) ==
    /\ q.op = "search"
    /\ LET outcome == SearchOutcome(room, q.actor) IN
       Arrive(s, q, "answer",
              IF outcome = "threw" THEN NoResponse
              ELSE Body(200, IF outcome = "listed" THEN <<Projection(room)>> ELSE <<>>))

\* ------------------------------------------------------------------ moderation

SuspendedNotice ==
    "This room has been suspended by the Compensation server moderation team for possible violations of our community standards."

TerminatedNotice ==
    "This room has been terminated by the Compensation server moderation team for repeated violations of our community standards."

\* authenticateDeveloperToken admits a token that carries the developer flag.
authenticateDeveloperToken(uid) == Developer(uid)

\* A moderation request arrives and fetches the room: these routes have no
\* room gate.  `permanent` is the query flag of moderation-terminate.
Moderate(s, q) ==
    /\ FreeSlot(s)
    /\ started < MaxRequests
    /\ authenticateDeveloperToken(q.actor)
    /\ started' = started + 1
    /\ LET r == [pc |-> "write", op |-> q.op, actor |-> q.actor, name |-> q.name,
                 target |-> q.target, body |-> q.body,
                 reqRoom |-> NoRoom, userRoomRole |-> EmptyObject,
                 permsDefined |-> FALSE, userRoomPermissions |-> EmptyObject,
                 room |-> room]
       IN IF room = NoRoom
          THEN last' = Answered(q, Resp(404, "room_not_found"), {}) /\ UNCHANGED reqs
          ELSE reqs' = [reqs EXCEPT ![s] = r] /\ UNCHANGED last
    /\ UNCHANGED <<room, files, uploads, audit, notifications>>
    /\ UNCHANGED otherVars

\* A lockdown that only takes viewAndJoin away.
LockEveryoneViewOnly(rolePermissions) ==
    SetKey(rolePermissions, "everyone",
           SetKey(IF "everyone" \in DOMAIN rolePermissions
                  THEN rolePermissions["everyone"] ELSE EmptyObject,
                  "viewAndJoin", FALSE))

\* $set of "rolePermissions.everyone.viewAndJoin" and
\* "rolePermissions.everyone.managePermissions" to false: a dotted path
\* creates the embedded record where there is none.
LockEveryone(rolePermissions) ==
    SetKey(rolePermissions, "everyone",
           SetKey(SetKey(IF "everyone" \in DOMAIN rolePermissions
                         THEN rolePermissions["everyone"] ELSE EmptyObject,
                         "viewAndJoin", FALSE),
                  "managePermissions", FALSE))

Notification(account, template) == [account |-> account, template |-> template]

\* POST /room/:id/moderation-suspend, from its findOne on.
SuspendWrite(s) ==
    LET r == reqs[s] IN
    /\ r.pc = "write" /\ r.op = "suspend"
    /\ room' = UpdateOne(room,
          [room EXCEPT !.userPermissions = EmptyObject,
                       !.rolePermissions = LockEveryone(@),
                       !.description = SuspendedNotice])
    /\ audit' = roomAuditLog(audit, r.actor, "room_suspended", Null, Null)
    /\ notifications' = Append(notifications,
                               Notification(r.room.creator_id, "room_suspension_notice"))
    /\ FinishEmit(s, Resp(200, "success"), {r.room.creator_id})
    /\ UNCHANGED <<files, uploads, started>>
    /\ UNCHANGED otherVars

\* A lockdown that empties every role's record and keeps its key.
TerminatedRoomKeepingRoles(rm) ==
    [rm EXCEPT !.userPermissions = EmptyObject,
               !.rolePermissions = [k \in DOMAIN @ |-> EmptyObject],
               !.description = TerminatedNotice]

\* The $set of a terminate that is not permanent.
TerminatedRoom(rm) ==
    [rm EXCEPT !.userPermissions = EmptyObject,
               !.rolePermissions = [k \in {"everyone"} |-> EmptyObject],
               !.description = TerminatedNotice]

\* POST /room/:id/moderation-terminate, from its findOne on.
TerminateWrite(s) ==
    LET r == reqs[s] IN
    /\ r.pc = "write" /\ r.op = "terminate"
    /\ IF r.body = "true"
       THEN /\ room' = NoRoom
            /\ audit' = roomAuditLog(audit, r.actor, "room_terminated_for_illegal_content",
                                     Null, Null)
            /\ Finish(s, Resp(200, "success"))
            /\ UNCHANGED <<files, uploads, notifications, started>>
       ELSE /\ room' = UpdateOne(room, TerminatedRoom(room))
            /\ audit' = roomAuditLog(audit, r.actor, "room_terminated", Null, Null)
            /\ notifications' = Append(notifications,
                                  Notification(r.room.creator_id, "room_termination_notice"))
            /\ FinishEmit(s, Resp(200, "success"), {r.room.creator_id})
            /\ UNCHANGED <<files, uploads, started>>
    /\ UNCHANGED otherVars

\* ------------------------------------------------------------------ audit failures

\* roomAuditLog's insertOne rejects.  A handler that awaits roomAuditLog
\* inside its try block lands in its catch block, after its updateOne.

\* POST /room/:id/user/:user_id/set-role/:role_name: the updateOne and the
\* emit have happened, the awaited roomAuditLog throws, the catch block
\* answers 500.
SetRoleWriteAuditFails(s) ==
    LET r == reqs[s] IN
    /\ r.pc = "write" /\ r.op = "set_role"
    /\ r.room # NoRoom
    /\ r.target # r.room.creator_id
    /\ ResolveRole(r.room, r.target) # "owner"
    /\ room' = UpdateOne(room,
          [room EXCEPT !.userPermissions =
              IF r.name = "everyone" THEN UnsetKey(@, r.target)
              ELSE SetKey(@, r.target, r.name)])
    /\ FinishEmit(s, InternalError, {r.target})
    /\ UNCHANGED <<files, uploads, audit, notifications, started>>
    /\ UNCHANGED otherVars

\* PUT /room/:id/subrooms/:subroom_id/versions/new: the $push has happened,
\* the awaited roomAuditLog throws, the catch block answers 500.
CreateVersionWriteAuditFails(s) ==
    LET r == reqs[s] IN
    /\ r.pc = "write" /\ r.op = "create_version"
    /\ r.room # NoRoom
    /\ r.name \in DOMAIN r.room.subrooms
    /\ room' = UpdateOne(room,
          [room EXCEPT !.subrooms =
              PushVersion(@, r.name, DecoupledMetadata(r.body, r.actor))])
    /\ Finish(s, InternalError)
    /\ UNCHANGED <<files, uploads, audit, notifications, started>>
    /\ UNCHANGED otherVars

\* POST /room/:id/description: the $set has happened, the awaited
\* roomAuditLog throws, the catch block answers 500.
SetDescriptionAuditFails(s) ==
    LET r == reqs[s] IN
    /\ r.pc = "handler" /\ r.op = "set_description"
    /\ r.body.typeof = "string"
    /\ room' = UpdateOne(room, [room EXCEPT !.description = r.body.content])
    /\ Finish(s, InternalError)
    /\ UNCHANGED <<files, uploads, audit, notifications, started>>
    /\ UNCHANGED otherVars

\* POST /room/:id/moderation-suspend: roomAuditLog is called without await,
\* so its rejection reaches no catch block and the handler goes on.
SuspendWriteAuditFails(s) ==
    LET r == reqs[s] IN
    /\ r.pc = "write" /\ r.op = "suspend"
    /\ room' = UpdateOne(room,
          [room EXCEPT !.userPermissions = EmptyObject,
                       !.rolePermissions = LockEveryone(@),
                       !.description = SuspendedNotice])
    /\ notifications' = Append(notifications,
                               Notification(r.room.creator_id, "room_suspension_notice"))
    /\ FinishEmit(s, Resp(200, "success"), {r.room.creator_id})
    /\ UNCHANGED <<files, uploads, audit, started>>
    /\ UNCHANGED otherVars

\* ------------------------------------------------------------------ rooms

\* What POST /new looks at in a document of the rooms collection.
RoomEntry(creator_id, name) == [creator_id |-> creator_id, name |-> name]

\* findOne({creator_id, name}) on the rooms collection.
Predecessor(collection, creator_id, name) ==
    \E i \in 1..Len(collection) : collection[i] = RoomEntry(creator_id, name)

\* POST /new, up to its insertOne: the check of the body's name and the
\* findOne for a room of the requester with the name.
NewRoomFind(s, q) ==
    /\ q.op = "new"
    /\ FreeSlot(s)
    /\ started < MaxRequests
    /\ started' = started + 1
    /\ IF q.body.typeof # "string"
       THEN /\ last' = Answered(q, Resp(400, "unspecified_parameter"), {})
            /\ UNCHANGED reqs
       ELSE IF Predecessor(rooms, q.actor, q.body.content)
       THEN /\ last' = Answered(q, Resp(400, "room_already_exists"), {})
            /\ UNCHANGED reqs
       ELSE /\ reqs' = [reqs EXCEPT ![s] =
                    [pc |-> "insert", op |-> q.op, actor |-> q.actor, name |-> q.name,
                     target |-> q.target, body |-> q.body]]
            /\ UNCHANGED last
    /\ UNCHANGED <<room, files, uploads, audit, notifications, rooms, accounts, now>>
    /\ UNCHANGED imgVars

\* POST /new: its insertOne, the audit event and the answer.
NewRoomInsert(s) ==
    LET r == reqs[s] IN
    /\ r.pc = "insert" /\ r.op = "new"
    /\ rooms' = Append(rooms, RoomEntry(r.actor, r.body.content))
    /\ audit' = roomAuditLog(audit, r.actor, "room_created", Null, r.body.content)
    /\ Finish(s, Resp(200, "success"))
    /\ UNCHANGED <<room, files, uploads, notifications, started, accounts, now>>
    /\ UNCHANGED imgVars

\* ------------------------------------------------------------------ accounts

\* The part of an account document the social and ban helpers use.
Account(acquaintances, friends, favoriteFriends, bans) ==
    [acquaintances |-> acquaintances, friends |-> friends,
     favoriteFriends |-> favoriteFriends, bans |-> bans,
     friendRequestsSent |-> <<>>, notifications |-> <<>>]

NewAccount == Account(<<>>, <<>>, <<>>, <<>>)

\* A ban as BanPlayer stores it.
Ban(reason, endTS, moderator) == [reason |-> reason, endTS |-> endTS, moderator |-> moderator]

\* BanPlayer(id, reason, duration, moderator) on the account it pulled, at
\* Date.now() = time: the account it pushes.
BanPlayer(data, reason, duration, moderator, time) ==
    [data EXCEPT !.bans = Append(@, Ban(reason, time + (duration * 60), moderator))]

\* The loop of POST /login and POST /refresh over data.auth.bans.
IsBanned(data, time) == \E i \in 1..Len(data.bans) : data.bans[i].endTS > time

\* A call of BanPlayer; `started` counts the calls the account helpers and
\* the clock make.
BanPlayerCall(id, duration, moderator) ==
    /\ started < MaxRequests
    /\ started' = started + 1
    /\ accounts' = [accounts EXCEPT ![id] = BanPlayer(@, "reported", duration, moderator, now)]
    /\ UNCHANGED <<last, now>>
    /\ UNCHANGED roomVars

\* Time passes.
Tick(ms) ==
    /\ started < MaxRequests
    /\ started' = started + 1
    /\ now' = now + ms
    /\ UNCHANGED <<last, accounts>>
    /\ UNCHANGED roomVars

\* What POST /login (with the right password) and POST /refresh answer.
TokenResp(data, time) ==
    IF IsBanned(data, time) THEN Resp(403, "USER IS BANNED") ELSE Resp(200, "accessToken")

\* POST /login with the account's password.
Login(id) ==
    /\ started < MaxRequests
    /\ started' = started + 1
    /\ last' = Answered(Request("login", id, "-", "-", <<>>), TokenResp(accounts[id], now), {})
    /\ UNCHANGED <<accounts, now>>
    /\ UNCHANGED roomVars

\* POST /refresh with the account's token.
Refresh(id) ==
    /\ started < MaxRequests
    /\ started' = started + 1
    /\ last' = Answered(Request("refresh", id, "-", "-", <<>>), TokenResp(accounts[id], now), {})
    /\ UNCHANGED <<accounts, now>>
    /\ UNCHANGED roomVars

\* list.findIndex(item => item === player): the first position, counted
\* from 0, or -1.
FindIndex(list, player) ==
    IF \E i \in 1..Len(list) : list[i] = player
    THEN (CHOOSE i \in 1..Len(list) :
              list[i] = player /\ \A j \in 1..(i - 1) : list[j] # player) - 1
    ELSE -1

\* list.splice(index) with no delete count: everything from the index on
\* is removed, a negative index counting from the end.
Splice(list, index) ==
    IF index >= 0 THEN SubSeq(list, 1, index)
    ELSE IF Len(list) + index >= 0 THEN SubSeq(list, 1, Len(list) + index)
    ELSE <<>>

\* The list one of the Remove helpers leaves in the data it pulled.
SpliceOut(list, player, wanted) ==
    IF FindIndex(list, player) >= 0 /\ wanted
    THEN Splice(list, FindIndex(list, player))
    ELSE list

\* The body the three Remove helpers share, on the list named `field`:
\* both accounts are pulled, then both are pushed, player2's last.
RemoveFromLists(all, field, player1, player2, both) ==
    LET data1 == [all[player1] EXCEPT ![field] = SpliceOut(@, player2, TRUE)]
        data2 == [all[player2] EXCEPT ![field] = SpliceOut(@, player1, both)]
    IN [[all EXCEPT ![player1] = data1] EXCEPT ![player2] = data2]

RemoveAcquaintance(player1, player2, both) ==
    /\ started < MaxRequests
    /\ started' = started + 1
    /\ accounts' = RemoveFromLists(accounts, "acquaintances", player1, player2, both)
    /\ UNCHANGED <<last, now>>
    /\ UNCHANGED roomVars

RemoveFriend(player1, player2, both) ==
    /\ started < MaxRequests
    /\ started' = started + 1
    /\ accounts' = RemoveFromLists(accounts, "friends", player1, player2, both)
    /\ UNCHANGED <<last, now>>
    /\ UNCHANGED roomVars

RemoveFavoriteFriend(player1, player2, both) ==
    /\ started < MaxRequests
    /\ started' = started + 1
    /\ accounts' = RemoveFromLists(accounts, "favoriteFriends", player1, player2, both)
    /\ UNCHANGED <<last, now>>
    /\ UNCHANGED roomVars

\* ------------------------------------------------------------------ specifications

Init ==
    /\ room = NewRoom(Creator)
    /\ files = EmptyObject
    /\ uploads = {}
    /\ audit = <<AuditEvent(Creator, "room_created", Null, "Test")>>
    /\ notifications = <<>>
    /\ reqs = [s \in Slots |-> Idle]
    /\ last = Answered(Request("new", Creator, "Test", "-", <<>>), Resp(200, "success"), {})
    /\ started = 0
    /\ rooms = <<RoomEntry(Creator, "Test")>>
    /\ accounts = [id \in Users |-> NewAccount]
    /\ now = 0
    /\ imageMetadataTemplate = ImageMetadata("undefined", "0", "0", "public")
    /\ images = <<>>
    /\ ImageCount = 0

SubroomOps == {"create_subroom", "delete_subroom", "set_home_subroom"}

SubroomRequests ==
    {Request(op, uid, name, "-", <<>>) :
        op \in SubroomOps, uid \in Users, name \in SubroomNames}

SubroomGate == \E s \in Slots, q \in SubroomRequests : Gate(s, q)

SubroomNext ==
    \/ SubroomGate
    \/ \E s \in Slots : CreateSubroom(s)
    \/ \E s \in Slots : DeleteSubroom(s)
    \/ \E s \in Slots : SetHomeSubroom(s)

\* The subroom endpoints, served concurrently.
SpecSubrooms == Init /\ [][SubroomNext]_vars

\* Bodies of a role-permissions update: `permissions` as key/value pairs in
\* the order the body lists them.
PermissionUpdates ==
    { << <<"managePermissions", "true">> >>,
      << <<"manageSubrooms", "true">> >>,
      << <<"manageSubrooms", "false">> >>,
      << <<"managePermissions", "true">>, <<"manageSubrooms", "true">> >>,
      << <<"managePermissions", "1">>, <<"manageSubrooms", "true">> >>,
      << <<"__proto__", "true">> >> }

RoleRequests ==
    {Request("create_role", uid, name, "-", <<>>) :
        uid \in Users, name \in {"owner", "builder"}}
    \cup {Request("update_role", uid, name, "-", << <<"managePermissions", "true">> >>) :
        uid \in Users, name \in {"everyone", "builder"}}
    \cup {Request("delete_role", uid, name, "-", <<>>) :
        uid \in Users, name \in {"owner", "everyone", "builder", "u2"}}
    \cup {Request("set_role", uid, name, target, <<>>) :
        uid \in Users, name \in {"owner", "everyone", "builder"},
        target \in {"u1", "u2"}}
    \cup {Request("create_subroom", uid, "lounge", "-", <<>>) : uid \in Users}

DelegationRequests ==
    {Request("create_role", uid, "builder", "-", <<>>) : uid \in {"u1", "dev"}}
    \cup {Request("update_role", uid, name, "-", body) :
        uid \in Users, name \in {"everyone", "builder"}, body \in PermissionUpdates}
    \cup {Request("update_role", uid, "owner", "-", << <<"manageSubrooms", "true">> >>) :
        uid \in Users}

ModerationRequests ==
    {Request("suspend", uid, "-", "-", "-") : uid \in Users}
    \cup {Request("terminate", uid, "-", "-", permanent) :
        uid \in Users, permanent \in {"true", "false"}}

RoleGate == \E s \in Slots, q \in RoleRequests : Gate(s, q)

ModerationStart == \E s \in Slots, q \in ModerationRequests : Moderate(s, q)

RoleNext ==
    \/ RoleGate
    \/ ModerationStart
    \/ \E s \in Slots : CreateRoleRead(s)
    \/ \E s \in Slots : CreateRoleWrite(s)
    \/ \E s \in Slots : UpdateRoleRead(s)
    \/ \E s \in Slots : UpdateRoleWrite(s)
    \/ \E s \in Slots : DeleteRoleRead(s)
    \/ \E s \in Slots : DeleteRoleWrite(s)
    \/ \E s \in Slots : SetRoleRead(s)
    \/ \E s \in Slots : SetRoleWrite(s)
    \/ \E s \in Slots : SuspendWrite(s)
    \/ \E s \in Slots : TerminateWrite(s)
    \/ \E s \in Slots : CreateSubroom(s)

\* The view endpoints, with the requests that change what they see: a grant
\* of viewAndJoin, a role assignment, an upload and a permanent terminate.
ViewOps == {"info", "my_permissions", "verify_subroom_link", "download"}

ViewRequests ==
    {Request("info", uid, "-", "-", <<>>) : uid \in Users \cup {Anonymous}}
    \cup {Request("search", uid, "-", "-", <<>>) : uid \in Users \cup {Anonymous}}
    \cup {Request("my_permissions", uid, "-", "-", <<>>) : uid \in Users}
    \cup {Request("verify_subroom_link", uid, name, "-", <<>>) :
            uid \in Users, name \in SubroomNames}
    \cup {Request("download", uid, "home", "0", <<>>) : uid \in Users}

ViewChanges ==
    {Request("update_role", "dev", "everyone", "-", << <<"viewAndJoin", "true">> >>),
     Request("set_role", "dev", "builder", "u2", <<>>),
     Request("set_role", "dev", "builder", "dev", <<>>),
     Request("associate_data", "dev", "home", "0", "AAEC")}

ViewModeration == {Request("terminate", "dev", "-", "-", "true")}

ViewNext ==
    \/ \E s \in Slots, q \in ViewRequests : InfoStart(s, q)
    \/ \E s \in Slots, q \in ViewRequests : ViewGate(s, q)
    \/ \E s \in Slots, q \in ViewRequests : DownloadStart(s, q)
    \/ \E s \in Slots, q \in ViewRequests : Search(s, q)
    \/ \E s \in Slots, q \in ViewChanges : Gate(s, q)
    \/ \E s \in Slots, q \in ViewModeration : Moderate(s, q)
    \/ \E s \in Slots : InfoAnswer(s)
    \/ \E s \in Slots : MyPermissions(s)
    \/ \E s \in Slots : VerifySubroomLink(s)
    \/ \E s \in Slots : DownloadAnswer(s)
    \/ \E s \in Slots : UpdateRoleRead(s)
    \/ \E s \in Slots : UpdateRoleWrite(s)
    \/ \E s \in Slots : SetRoleRead(s)
    \/ \E s \in Slots : SetRoleWrite(s)
    \/ \E s \in Slots : AssociateDataRead(s)
    \/ \E s \in Slots : AssociateDataWrite(s)
    \/ \E u \in uploads : UploadLands(u)
    \/ \E s \in Slots : TerminateWrite(s)

SpecViews == Init /\ [][ViewNext]_vars

\* Requests of every kind around the moderation of one room: role,
\* subroom, version and metadata changes, fetches, and the three moderation
\* actions.
LifecycleChanges ==
    {Request("create_role", "dev", "builder", "-", <<>>),
     Request("update_role", "dev", "everyone", "-", << <<"managePermissions", "true">> >>),
     Request("set_role", "dev", "builder", "u2", <<>>),
     Request("create_subroom", "u1", "lounge", "-", <<>>),
     Request("create_version", "u1", "home", "-",
             [spawn |-> "numeric", collaborators |-> "array", author |-> "u1",
              shortHandCommitMessage |-> "m1"]),
     Request("set_tags", "u1", "-", "-", Array(<<String("pvp")>>)),
     Request("set_content_flags", "u1", "-", "-", Object(<< <<"violence", String("mild")>> >>)),
     Request("set_description", "u1", "-", "-", String("A room."))}

LifecycleFetches ==
    {Request("info", uid, "-", "-", <<>>) : uid \in {"u1", "u2"}}

LifecycleModeration ==
    {Request("suspend", "dev", "-", "-", "-"),
     Request("terminate", "dev", "-", "-", "false"),
     Request("terminate", "dev", "-", "-", "true")}

LifecycleNext ==
    \/ \E s \in Slots, q \in LifecycleChanges : Gate(s, q)
    \/ \E s \in Slots, q \in LifecycleFetches : InfoStart(s, q)
    \/ \E s \in Slots, q \in LifecycleModeration : Moderate(s, q)
    \/ \E s \in Slots : InfoAnswer(s)
    \/ \E s \in Slots : CreateRoleRead(s)
    \/ \E s \in Slots : CreateRoleWrite(s)
    \/ \E s \in Slots : UpdateRoleRead(s)
    \/ \E s \in Slots : UpdateRoleWrite(s)
    \/ \E s \in Slots : SetRoleRead(s)
    \/ \E s \in Slots : SetRoleWrite(s)
    \/ \E s \in Slots : CreateSubroom(s)
    \/ \E s \in Slots : CreateVersionRead(s)
    \/ \E s \in Slots : CreateVersionWrite(s)
    \/ \E s \in Slots : SetTags(s)
    \/ \E s \in Slots : SetContentFlagsAudit(s)
    \/ \E s \in Slots : SetContentFlagsWrite(s)
    \/ \E s \in Slots : SetDescription(s)
    \/ \E s \in Slots : SuspendWrite(s)
    \/ \E s \in Slots : TerminateWrite(s)

SpecLifecycle == Init /\ [][LifecycleNext]_vars

\* Changes whose audit insert may fail.
AuditedChanges ==
    {Request("create_role", "dev", "builder", "-", <<>>),
     Request("set_role", "dev", "builder", "u2", <<>>),
     Request("set_role", "u1", "everyone", "u2", <<>>),
     Request("create_version", "u1", "home", "-",
             [spawn |-> "numeric", collaborators |-> "array", author |-> "u1",
              shortHandCommitMessage |-> "m1"]),
     Request("set_description", "u1", "-", "-", String("A room."))}

AuditedModeration == {Request("suspend", "dev", "-", "-", "-")}

AuditNext ==
    \/ \E s \in Slots, q \in AuditedChanges : Gate(s, q)
    \/ \E s \in Slots, q \in AuditedModeration : Moderate(s, q)
    \/ \E s \in Slots : CreateRoleRead(s)
    \/ \E s \in Slots : CreateRoleWrite(s)
    \/ \E s \in Slots : SetRoleRead(s)
    \/ \E s \in Slots : SetRoleWrite(s)
    \/ \E s \in Slots : SetRoleWriteAuditFails(s)
    \/ \E s \in Slots : CreateVersionRead(s)
    \/ \E s \in Slots : CreateVersionWrite(s)
    \/ \E s \in Slots : CreateVersionWriteAuditFails(s)
    \/ \E s \in Slots : SetDescription(s)
    \/ \E s \in Slots : SetDescriptionAuditFails(s)
    \/ \E s \in Slots : SuspendWrite(s)
    \/ \E s \in Slots : SuspendWriteAuditFails(s)

\* The audited endpoints, with an audit store that may reject an insert.
SpecAudit == Init /\ [][AuditNext]_vars

\* Requests that pass the gate and that the handlers' checks turn down, next
\* to the ones they accept.
ValidationRequests ==
    {Request("create_role", "u1", name, "-", <<>>) : name \in {"owner", "builder"}}
    \cup {Request("update_role", "u1", name, "-", body) :
            name \in {"ghost", "everyone"},
            body \in {<< <<"managePermissions", "true">> >>,
                      << <<"viewAndJoin", "1">> >>}}
    \cup {Request("update_role", "u2", "everyone", "-", << <<"manageSubrooms", "true">> >>),
          Request("set_role", "u1", "owner", "u2", <<>>),
          Request("set_role", "u1", "builder", "u2", <<>>),
          Request("create_subroom", "u1", "home", "-", <<>>),
          Request("create_version", "u1", "attic", "-",
                  [spawn |-> "numeric", collaborators |-> "array", author |-> "u1",
                   shortHandCommitMessage |-> "m1"]),
          Request("create_version", "u1", "home", "-",
                  [spawn |-> "missing", collaborators |-> "array", author |-> "u1",
                   shortHandCommitMessage |-> "m1"])}
    \cup {Request("associate_data", "u1", "home", version_id, "AAEC") :
            version_id \in {"0", "3", "x"}}
    \cup {Request("set_tags", "u1", "-", "-", tags) :
            tags \in {Array(<<String("pvp")>>),
                      Array(<<String("pvp"), Number("1")>>), Undefined}}
    \cup {Request("set_content_flags", "u1", "-", "-", flags) :
            flags \in {Object(<< <<"violence", String("mild")>> >>),
                       Object(<< <<"violence", Number("1")>> >>),
                       Array(<<String("violence")>>)}}
    \cup {Request("set_description", "u1", "-", "-", description) :
            description \in {String("A room."), Number("1")}}

ValidationNext ==
    \/ \E s \in Slots, q \in ValidationRequests : Gate(s, q)
    \/ \E s \in Slots : CreateRoleRead(s)
    \/ \E s \in Slots : CreateRoleWrite(s)
    \/ \E s \in Slots : UpdateRoleRead(s)
    \/ \E s \in Slots : UpdateRoleWrite(s)
    \/ \E s \in Slots : SetRoleRead(s)
    \/ \E s \in Slots : SetRoleWrite(s)
    \/ \E s \in Slots : CreateSubroom(s)
    \/ \E s \in Slots : CreateVersionRead(s)
    \/ \E s \in Slots : CreateVersionWrite(s)
    \/ \E s \in Slots : AssociateDataRead(s)
    \/ \E s \in Slots : AssociateDataWrite(s)
    \/ \E u \in uploads : UploadLands(u)
    \/ \E s \in Slots : SetTags(s)
    \/ \E s \in Slots : SetContentFlagsAudit(s)
    \/ \E s \in Slots : SetContentFlagsWrite(s)
    \/ \E s \in Slots : SetDescription(s)

\* The handlers' input checks, on accepted and rejected requests.
SpecValidation == Init /\ [][ValidationNext]_vars

\* Ids a set-public-version body carries: indexes of versions, an index past
\* the list, a negative number, a text that is no number, and a number
\* that is no string.
PublicVersionIds ==
    {String("0"), String("1"), String("3"), String("-1"), String("x"), Number("1")}

PublicRequests ==
    {Request("set_public_version", "u1", name, "-", id) :
        name \in {"home", "lounge"}, id \in PublicVersionIds}
    \cup {Request("create_version", "u1", "home", "-",
                  [spawn |-> "numeric", collaborators |-> "array", author |-> "u1",
                   shortHandCommitMessage |-> "m1"])}

PublicNext ==
    \/ \E s \in Slots, q \in PublicRequests : Gate(s, q)
    \/ \E s \in Slots : CreateVersionRead(s)
    \/ \E s \in Slots : CreateVersionWrite(s)
    \/ \E s \in Slots : SetPublicVersionRead(s)
    \/ \E s \in Slots : SetPublicVersionWrite(s)

\* The public-version pointer, set concurrently with new versions.
SpecPublic == Init /\ [][PublicNext]_vars

\* A subroom made, filled and deleted by the creator.
LedgerRequests ==
    {Request(op, "u1", "lounge", "-", <<>>) : op \in {"create_subroom", "delete_subroom"}}
    \cup {Request("create_version", "u1", name, "-",
                  [spawn |-> "numeric", collaborators |-> "array", author |-> "u1",
                   shortHandCommitMessage |-> "m1"]) : name \in {"home", "lounge"}}
    \cup {Request("associate_data", "u1", name, "0", "AAEC") : name \in {"home", "lounge"}}

LedgerNext ==
    \/ \E s \in Slots, q \in LedgerRequests : Gate(s, q)
    \/ \E s \in Slots : CreateSubroom(s)
    \/ \E s \in Slots : DeleteSubroom(s)
    \/ \E s \in Slots : CreateVersionRead(s)
    \/ \E s \in Slots : CreateVersionWrite(s)
    \/ \E s \in Slots : AssociateDataRead(s)
    \/ \E s \in Slots : AssociateDataWrite(s)
    \/ \E u \in uploads : UploadLands(u)

\* The version lists of subrooms that come and go.
SpecLedger == Init /\ [][LedgerNext]_vars

\* A version made, filled, published and downloaded.
DownloadRequests ==
    {Request("download", "u2", "home", selector, <<>>) :
        selector \in {"latest", "0", "1", "x"}}

DownloadChanges ==
    {Request("create_version", "u1", "home", "-",
             [spawn |-> "numeric", collaborators |-> "array", author |-> "u1",
              shortHandCommitMessage |-> "m1"]),
     Request("associate_data", "u1", "home", "0", "AAEC"),
     Request("associate_data", "u1", "home", "1", "AwQF"),
     Request("set_public_version", "u1", "home", "-", String("1")),
     Request("set_public_version", "u1", "home", "-", String("x"))}

DownloadNext ==
    \/ \E s \in Slots, q \in DownloadRequests : DownloadStart(s, q)
    \/ \E s \in Slots, q \in DownloadChanges : Gate(s, q)
    \/ \E s \in Slots : DownloadAnswer(s)
    \/ \E s \in Slots : CreateVersionRead(s)
    \/ \E s \in Slots : CreateVersionWrite(s)
    \/ \E s \in Slots : AssociateDataRead(s)
    \/ \E s \in Slots : AssociateDataWrite(s)
    \/ \E u \in uploads : UploadLands(u)
    \/ \E s \in Slots : SetPublicVersionRead(s)
    \/ \E s \in Slots : SetPublicVersionWrite(s)

\* Downloads next to the requests that make, fill and publish versions.
SpecDownload == Init /\ [][DownloadNext]_vars

\* Names a POST /new body carries.
RoomNames == {String("Test"), String("Lobby"), Undefined}

NewRoomRequests ==
    {Request("new", uid, "-", "-", name) : uid \in {"u1", "u2"}, name \in RoomNames}

RoomsNext ==
    \/ \E s \in Slots, q \in NewRoomRequests : NewRoomFind(s, q)
    \/ \E s \in Slots : NewRoomInsert(s)

\* POST /new, served concurrently.
SpecRooms == Init /\ [][RoomsNext]_vars

\* Counts a set-max-players path carries.
PlayerCounts == {"3", "0", "-1", "2.5", "x"}

CapacityRequests ==
    {Request("set_max_players", "u1", name, count, <<>>) :
        name \in {"home", "lounge"}, count \in PlayerCounts}
    \cup {Request("create_subroom", "u1", "lounge", "-", <<>>)}

CapacityNext ==
    \/ \E s \in Slots, q \in CapacityRequests : Gate(s, q)
    \/ \E s \in Slots : CreateSubroom(s)
    \/ \E s \in Slots : SetMaxPlayers(s)

\* Subroom capacities.
SpecCapacity == Init /\ [][CapacityNext]_vars

\* Milliseconds in an hour, and the ban durations the callers of BanPlayer
\* pass, in hours.
Hour == 3600000

Durations == {1, 6}

\* Steps of the clock: a minute's worth of milliseconds and less, and hours.
Ticks == {60, 360, Hour, 6 * Hour}

BanNext ==
    \/ \E id \in {"u1", "u2"}, duration \in Durations : BanPlayerCall(id, duration, "dev")
    \/ \E ms \in Ticks : Tick(ms)
    \/ \E id \in {"u1", "u2"} : Login(id)
    \/ \E id \in {"u1", "u2"} : Refresh(id)

\* Bans, the clock, and the two routes that issue tokens.
SpecBans == Init /\ [][BanNext]_vars

\* The lists an account may start with: the other accounts, in any order
\* and number.
ListsOf(id) ==
    LET others == Users \ {id} IN
    {<<>>} \cup {<<a>> : a \in others}
           \cup {<<pair[1], pair[2]>> : pair \in {q \in others \X others : q[1] # q[2]}}

\* u1 and u2 start with any list, the same in their three kinds; dev has
\* both as acquaintances, friends and favorite friends.
InitSocial ==
    /\ room = NewRoom(Creator)
    /\ files = EmptyObject
    /\ uploads = {}
    /\ audit = <<AuditEvent(Creator, "room_created", Null, "Test")>>
    /\ notifications = <<>>
    /\ reqs = [s \in Slots |-> Idle]
    /\ last = Answered(Request("new", Creator, "Test", "-", <<>>), Resp(200, "success"), {})
    /\ started = 0
    /\ rooms = <<RoomEntry(Creator, "Test")>>
    /\ now = 0
    /\ imageMetadataTemplate = ImageMetadata("undefined", "0", "0", "public")
    /\ images = <<>>
    /\ ImageCount = 0
    /\ \E l1 \in ListsOf("u1"), l2 \in ListsOf("u2") :
          accounts = [id \in Users |->
                         IF id = "u1" THEN Account(l1, l1, l1, <<>>)
                         ELSE IF id = "u2" THEN Account(l2, l2, l2, <<>>)
                         ELSE Account(<<"u1", "u2">>, <<"u1", "u2">>, <<"u1", "u2">>, <<>>)]

\* Two different accounts.
Pairs == {pair \in Users \X Users : pair[1] # pair[2]}

SocialNext ==
    \/ \E pair \in Pairs, both \in BOOLEAN : RemoveAcquaintance(pair[1], pair[2], both)
    \/ \E pair \in Pairs, both \in BOOLEAN : RemoveFriend(pair[1], pair[2], both)
    \/ \E pair \in Pairs, both \in BOOLEAN : RemoveFavoriteFriend(pair[1], pair[2], both)

\* The three Remove helpers on accounts with any lists.
SpecSocial == InitSocial /\ [][SocialNext]_vars

\* The role, permission and moderation endpoints, served concurrently.
SpecRoles == Init /\ [][RoleNext]_vars

\* Version metadata bodies: `author` is what the client claims.
VersionBodies ==
    {[spawn |-> "numeric", collaborators |-> "array", author |-> "u2",
      shortHandCommitMessage |-> "m1"],
     [spawn |-> "numeric", collaborators |-> "array", author |-> "u1",
      shortHandCommitMessage |-> "m2"],
     [spawn |-> "missing", collaborators |-> "array", author |-> "u1",
      shortHandCommitMessage |-> "m1"],
     [spawn |-> "numeric", collaborators |-> "missing", author |-> "u1",
      shortHandCommitMessage |-> "m1"]}

VersionRequests ==
    {Request("create_version", uid, name, "-", body) :
        uid \in Users, name \in SubroomNames, body \in VersionBodies}
    \cup {Request("associate_data", uid, "home", version_id, body) :
        uid \in Users, version_id \in {"-1", "0", "1", "x"}, body \in {"AAEC", "AwQF"}}
    \cup {Request("associate_data", uid, "lounge", "0", "AAEC") : uid \in Users}

VersionGate == \E s \in Slots, q \in VersionRequests : Gate(s, q)

VersionNext ==
    \/ VersionGate
    \/ \E s \in Slots : CreateVersionRead(s)
    \/ \E s \in Slots : CreateVersionWrite(s)
    \/ \E s \in Slots : AssociateDataRead(s)
    \/ \E s \in Slots : AssociateDataWrite(s)
    \/ \E u \in uploads : UploadLands(u)

\* The version endpoints, served concurrently.
SpecVersions == Init /\ [][VersionNext]_vars

DelegationGate == \E s \in Slots, q \in DelegationRequests : Gate(s, q)

DelegationNext ==
    \/ DelegationGate
    \/ \E s \in Slots : CreateRoleRead(s)
    \/ \E s \in Slots : CreateRoleWrite(s)
    \/ \E s \in Slots : UpdateRoleRead(s)
    \/ \E s \in Slots : UpdateRoleWrite(s)

\* Role-permission updates of every shape, served concurrently.
SpecDelegation == Init /\ [][DelegationNext]_vars

\* ------------------------------------------------------------------ properties

\* Every permission name the API lists (GET /all-permissions).
PermissionNames ==
    {"viewAndJoin", "createVersions", "setPublicVersion", "viewSettings",
     "viewPermissions", "managePermissions", "useCreationTool", "kickPlayers",
     "mutePlayers", "manageSubrooms", "deleteSubrooms", "editDescription",
     "setHomeSubroom", "manageTags", "manageContentFlags", "setRoomPhoto"}

\* Slot s answers in this step, from its handler.
Answers(s) == reqs[s].pc # "idle" /\ reqs'[s].pc = "idle"

\* C1: in every reachable state of an existing room, homeSubroomId is a key
\* of subrooms.
C1_HomeSubroomIsKey ==
    room # NoRoom => room.homeSubroomId \in DOMAIN room.subrooms

\* The account that created the room is assigned the role "owner".
CreatorIsOwner(rm) ==
    /\ rm.creator_id \in DOMAIN rm.userPermissions
    /\ rm.userPermissions[rm.creator_id] = "owner"

Terminated ==
    \E i \in 1..Len(audit) : audit[i].type = "room_terminated"

\* delete-role on a reserved name is refused by the handler with
\* invalid_input, and the document is left alone.
DeleteReservedRefused ==
    \A s \in Slots :
        (/\ Answers(s) /\ reqs[s].op = "delete_role"
         /\ reqs[s].name \in {"owner", "everyone"})
            => /\ last'.resp = Resp(400, "invalid_input")
               /\ room' = room

OnlyCreatorIsOwner ==
    room # NoRoom =>
        \A u \in DOMAIN room.userPermissions :
            room.userPermissions[u] = "owner" => u = room.creator_id

\* The four refusals of set-role, on the document the handler read.
SetRoleMustRefuse(r) ==
    \/ r.name = "owner"
    \/ r.target = r.actor
    \/ /\ r.pc = "write" /\ r.room # NoRoom
       /\ \/ r.target = r.room.creator_id
          \/ ResolveRole(r.room, r.target) = "owner"

SetRoleRefusals ==
    \A s \in Slots :
        (Answers(s) /\ reqs[s].op = "set_role" /\ SetRoleMustRefuse(reqs[s]))
            => /\ last'.resp = Resp(403, "access_denied")
               /\ room' = room /\ audit' = audit

\* C9: no account other than the creator is mapped to "owner"; set-role
\* answers access_denied and changes nothing when the role is "owner", the
\* target is the requester, the target is the creator, or the target's
\* current role is "owner".
C9_OwnerNotAssignable ==
    /\ []OnlyCreatorIsOwner
    /\ [][SetRoleRefusals]_vars

\* Each of the refusals has happened: here the one for the role "owner",
\* asked for by a developer for an account other than the creator.
C9_Witness ==
    /\ last.op = "set_role" /\ last.name = "owner" /\ last.target = "u2"
    /\ last.actor = "dev"
    /\ last.resp = Resp(403, "access_denied")
    /\ room # NoRoom /\ "u2" \notin DOMAIN room.userPermissions

\* C3: after delete-role succeeds for a non-reserved role, the role is
\* absent from rolePermissions, no account is still assigned it, each
\* account that was assigned it is notified, and exactly one audit event of
\* type role_deleted is recorded.
C3_DeleteRoleCascade ==
    [][\A s \in Slots :
          (/\ Answers(s) /\ reqs[s].op = "delete_role"
           /\ reqs[s].name \notin {"owner", "everyone"}
           /\ room # NoRoom
           /\ last'.resp = Resp(200, "success"))
              => /\ reqs[s].name \notin DOMAIN room'.rolePermissions
                 /\ \A u \in DOMAIN room'.userPermissions :
                        room'.userPermissions[u] # reqs[s].name
                 /\ {u \in DOMAIN room.userPermissions :
                        room.userPermissions[u] = reqs[s].name}
                        \subseteq last'.emitted
                 /\ Len(audit') = Len(audit) + 1
                 /\ audit'[Len(audit')].type = "role_deleted"]_vars

\* A body of a role-permissions update whose every entry is a boolean under
\* an ordinary key.
WellFormed(body) ==
    \A i \in 1..Len(body) :
        body[i][1] # "__proto__" /\ body[i][2] \in {"true", "false"}

\* The role the gate resolved for the requester, and whether that role's
\* record holds a permission.
ActorRole(r) == ResolveRole(r.reqRoom, r.actor)

ActorHolds(r, key) ==
    /\ ActorRole(r) \in DOMAIN r.reqRoom.rolePermissions
    /\ Truthy(r.reqRoom.rolePermissions[ActorRole(r)], key)

\* Slot s answers an update of an existing role other than "owner", having
\* read the document.
AnswersUpdate(s) ==
    /\ Answers(s) /\ reqs[s].op = "update_role" /\ reqs[s].pc = "write"
    /\ reqs[s].room # NoRoom
    /\ reqs[s].name \in DOMAIN reqs[s].room.rolePermissions

DelegationCap ==
    \A s \in Slots :
        LET r == reqs[s]
            lacking == {i \in 1..Len(r.body) : ~ActorHolds(r, r.body[i][1])}
        IN (/\ AnswersUpdate(s)
            /\ ~Developer(r.actor) /\ ActorRole(r) # "owner")
               => IF lacking # {}
                  THEN /\ room' = room /\ audit' = audit
                       /\ last'.resp.status = 400
                       /\ WellFormed(r.body)
                            => last'.resp = Resp(400, "access_denied")
                  ELSE WellFormed(r.body)
                        => /\ last'.resp = Resp(200, "success")
                           /\ room # NoRoom =>
                                \A i \in 1..Len(r.body) :
                                   room'.rolePermissions[r.name][r.body[i][1]]
                                       = (r.body[i][2] = "true")

\* C2: a role-permissions update by an actor who is neither the owner nor a
\* developer fails with access_denied and changes nothing whenever some
\* updated key is a permission the actor's resolved role does not hold, and
\* succeeds when the actor holds every updated key.
C2_DelegationCap == [][DelegationCap]_vars

\* An actor of the role "everyone" holding manageSubrooms has granted it to
\* the role "builder".
C2_Witness ==
    /\ last.op = "update_role" /\ last.actor = "u2" /\ last.name = "builder"
    /\ last.body = << <<"manageSubrooms", "true">> >>
    /\ last.resp = Resp(200, "success")
    /\ room # NoRoom
    /\ "u2" \notin DOMAIN room.userPermissions
    /\ Truthy(room.rolePermissions["builder"], "manageSubrooms")

\* C10: an actor whose role is "owner" can set any permission key, listed
\* in rolePermissions.owner or not, on any role other than "owner", and
\* the update succeeds.
C10_OwnerWaiver ==
    [][\A s \in Slots :
          (/\ AnswersUpdate(s)
           /\ ActorRole(reqs[s]) = "owner"
           /\ WellFormed(reqs[s].body))
              => last'.resp = Resp(200, "success")]_vars

\* The associated-file flag of the version a blob path belongs to.
Associated(rm, path) ==
    /\ rm # NoRoom
    /\ path[1] \in DOMAIN rm.subrooms
    /\ path[2] + 1 \in DOMAIN rm.subrooms[path[1]].versions
    /\ rm.subrooms[path[1]].versions[path[2] + 1].associated_file

\* C4: once a version's associated-file flag is true, the payload stored
\* for that version is never changed, by sequential or by concurrent
\* associate-data requests.
C4_PayloadImmutable ==
    [][\A path \in DOMAIN files :
          Associated(room, path)
              => path \in DOMAIN files' /\ files'[path] = files[path]]_vars

\* The last answer is that of a successful create-version.
CreatedVersion(answer) ==
    answer.op = "create_version" /\ answer.resp.code = "success"

\* C5: the id a successful create-version returns is the index at which
\* its version is stored, and the stored version's author is the
\* authenticated caller, whatever author the body names.
C5_ReturnedIdIsIndex ==
    (CreatedVersion(last) /\ room # NoRoom)
        => /\ last.resp.id = NumberToString(last.index)
           /\ room.subrooms[last.name].versions[last.index + 1].author = last.actor

\* Slot s answers a create-version that read the versions list at the
\* length the previous create-version on the same subroom answered with:
\* both read the list before either $push landed.
BothReadBeforeEitherPush(s) ==
    /\ Answers(s) /\ reqs[s].op = "create_version" /\ reqs[s].pc = "write"
    /\ CreatedVersion(last') /\ CreatedVersion(last)
    /\ last.name = reqs[s].name
    /\ last.resp.id = NumberToString(Len(reqs[s].room.subrooms[reqs[s].name].versions))

\* C6: when two create-version calls on one subroom both read the versions
\* list before either append lands, both return the same id while two
\* versions are appended at two indices, so that one returned id is not
\* the index of the version its call created.
C6_LostIndexRace ==
    [][\A s \in Slots :
          BothReadBeforeEitherPush(s)
              => /\ last'.resp.id = last.resp.id
                 /\ last'.index > last.index
                 /\ last'.resp.id # NumberToString(last'.index)
                 /\ room # NoRoom =>
                      Len(room'.subrooms[reqs[s].name].versions)
                          >= ParseInt(last.resp.id) + 2]_vars

\* Two calls read the initial list of one version; the second to answer
\* returned id 1, its version is stored at index 2, and index 1 holds the
\* other call's version.
C6_Witness ==
    /\ CreatedVersion(last) /\ room # NoRoom
    /\ last.resp.id = "1" /\ last.index = 2
    /\ Len(room.subrooms[last.name].versions) = 3
    /\ room.subrooms[last.name].versions[3] = DecoupledMetadata(last.body, last.actor)
    /\ room.subrooms[last.name].versions[2] # DecoupledMetadata(last.body, last.actor)

\* A request arrives in this step; it is answered at once or admitted to a
\* slot.
Arrives == started' = started + 1

Arriving ==
    IF reqs' = reqs THEN last'
    ELSE reqs'[CHOOSE s \in Slots : reqs'[s] # reqs[s]]

TurnedAway == Arrives /\ reqs' = reqs

\* C11: on every room endpoint with a room-level permission check, a
\* requester whose token carries the developer flag passes the check on an
\* existing room, whatever role it resolves to: it is never turned away.
C11_DeveloperPasses ==
    [][(/\ TurnedAway /\ room # NoRoom
        /\ Developer(last'.actor))
          => last'.op = "search" /\ last'.resp.status = 200]_vars

\* The requester's role record does not hold viewAndJoin, and the requester
\* is no developer.
LacksView(rm, uid) ==
    /\ rm # NoRoom /\ uid # Anonymous /\ ~Developer(uid)
    /\ ResolveRole(rm, uid) \in DOMAIN rm.rolePermissions
    /\ ~Truthy(rm.rolePermissions[ResolveRole(rm, uid)], "viewAndJoin")

\* What a view endpoint answers for a room id that does not exist.
NotFoundReply(op) ==
    CASE op = "info" -> InfoReply(InfoOutcome(NoRoom, "u2"))
      [] op = "download" -> DownloadReply(DownloadOutcome(NoRoom, "home", "0"))
      [] op \in {"my_permissions", "verify_subroom_link"}
            -> ViewReply(ViewOutcome(NoRoom, "u2"))

\* C12: on every view-style endpoint, a requester who lacks viewAndJoin on
\* an existing room is given the response given for a room that does not
\* exist.
C12_Indistinguishable ==
    [][(/\ Arrives /\ Arriving.op \in ViewOps
        /\ LacksView(room, Arriving.actor))
          => TurnedAway /\ last'.resp = NotFoundReply(last'.op)]_vars

\* A permanent terminate has answered success.
PermanentlyTerminated ==
    \E i \in 1..Len(audit) : audit[i].type = "room_terminated_for_illegal_content"

Moderated(s, op) ==
    /\ Answers(s) /\ reqs[s].op = op /\ room # NoRoom
    /\ last'.resp.status = 200

\* One audit event of the type is appended in this step.
OneAuditEvent(type) ==
    /\ Len(audit') = Len(audit) + 1
    /\ SubSeq(audit', 1, Len(audit)) = audit
    /\ audit'[Len(audit')].type = type

\* The permission is stored in the record, with the value false.
SetFalse(permissions, permission) ==
    permission \in DOMAIN permissions /\ permissions[permission] = FALSE

\* C14: after a successful suspend, userPermissions is empty, everyone's
\* viewAndJoin and managePermissions are false, the description is the
\* suspension notice, one room_suspended event has been recorded and one
\* notification has been appended for the creator.
C14_Suspend ==
    [][\A s \in Slots :
          Moderated(s, "suspend")
              => /\ room' # NoRoom
                 /\ room'.userPermissions = EmptyObject
                 /\ SetFalse(room'.rolePermissions["everyone"], "viewAndJoin")
                 /\ SetFalse(room'.rolePermissions["everyone"], "managePermissions")
                 /\ room'.description =
                      "This room has been suspended by the Compensation server moderation team for possible violations of our community standards."
                 /\ OneAuditEvent("room_suspended")
                 /\ notifications' = Append(notifications,
                        [account |-> room.creator_id,
                         template |-> "room_suspension_notice"])]_vars

\* A suspend has succeeded on a room in which everyone had been granted
\* managePermissions.
C14_Witness ==
    /\ last.op = "suspend" /\ last.resp.status = 200 /\ room # NoRoom
    /\ room.userPermissions = EmptyObject
    /\ \E i \in 1..Len(audit) : audit[i].type = "role_permissions_updated"
    /\ room.rolePermissions["everyone"]["managePermissions"] = FALSE
    /\ Len(notifications) = 1

\* What every non-permanent terminate leaves behind, whatever it does to
\* rolePermissions.
TerminateLockdown ==
    /\ room' # NoRoom
    /\ room'.userPermissions = EmptyObject
    /\ room'.description =
         "This room has been terminated by the Compensation server moderation team for repeated violations of our community standards."
    /\ OneAuditEvent("room_terminated")

C16_TerminateNotifies ==
    [][\A s \in Slots :
          Moderated(s, "terminate")
              => /\ notifications' = Append(notifications,
                        [account |-> room.creator_id,
                         template |-> "room_termination_notice"])
                 /\ room.creator_id \in last'.emitted]_vars

\* The moderation status of the room: gone, or what the last moderation
\* event of its audit trail says.
RECURSIVE StatusOf(_, _)
StatusOf(rm, log) ==
    IF rm = NoRoom THEN "Permanently-Deleted"
    ELSE IF log = <<>> THEN "Active"
    ELSE IF log[Len(log)].type = "room_suspended" THEN "Suspended"
    ELSE IF log[Len(log)].type = "room_terminated" THEN "Terminated"
    ELSE StatusOf(rm, SubSeq(log, 1, Len(log) - 1))

StatusTransitions ==
    {<<"Active", "Suspended">>, <<"Active", "Terminated">>,
     <<"Suspended", "Terminated">>, <<"Terminated", "Permanently-Deleted">>}

\* C17: moderation requests move the room's status only along
\* Active -> Suspended, Active or Suspended -> Terminated and
\* Terminated -> Permanently-Deleted.
C17_StatusTransitions ==
    [][\A s \in Slots :
          (Answers(s) /\ reqs[s].op \in {"suspend", "terminate"}
           /\ StatusOf(room', audit') # StatusOf(room, audit))
              => <<StatusOf(room, audit), StatusOf(room', audit')>>
                     \in StatusTransitions]_vars

\* The event type of the enumeration that matches a change request.
AuditTypeOf(r) ==
    CASE r.op = "create_subroom" -> "subroom_created"
      [] r.op = "delete_subroom" -> "subroom_deleted"
      [] r.op = "create_role" -> "role_created"
      [] r.op = "update_role" -> "role_permissions_updated"
      [] r.op = "delete_role" -> "role_deleted"
      [] r.op = "set_role" -> "user_roles_updated"
      [] r.op = "set_tags" -> "tags_updated"
      [] r.op = "set_content_flags" -> "content_flags_updated"
      [] r.op = "set_description" -> "description_updated"
      [] r.op = "suspend" -> "room_suspended"
      [] r.op = "terminate" ->
            IF r.body = "true" THEN "room_terminated_for_illegal_content"
            ELSE "room_terminated"
      [] OTHER -> "none"

\* Slot s records the event of its content-flags request, which the handler
\* does before its updateOne.
LogsContentFlags(s) ==
    /\ reqs[s].pc = "handler" /\ reqs'[s].pc = "write"
    /\ reqs[s].op = "set_content_flags"

\* Every change outside `ops` records one event of its type: content flags
\* before its updateOne, the others in the step that answers.
ChangesLogged(ops) ==
    \A s \in Slots :
          /\ LogsContentFlags(s) => OneAuditEvent("content_flags_updated")
          /\ (/\ Answers(s) /\ last'.resp.status = 200
              /\ AuditTypeOf(reqs[s]) # "none" /\ reqs[s].op \notin ops)
                => IF reqs[s].op = "set_content_flags"
                   THEN audit' = audit
                   ELSE OneAuditEvent(AuditTypeOf(reqs[s]))

\* C18: every successful role, permission, subroom, description, tag,
\* content-flag and moderation change records exactly one audit event, of
\* the type that matches the operation.
C18_OneAuditEventPerChange == [][ChangesLogged({})]_vars

\* C19: a request whose mutation of the room document has been persisted is
\* answered with success, whether or not its audit event could be written.
C19_AuditBestEffort ==
    [][\A s \in Slots :
          (Answers(s) /\ room' # room) => last'.resp.status = 200]_vars

\* The room document, the blob store with the writes on their way to it,
\* and the room's audit trail.
Stores == <<room, files, uploads, audit>>

\* The answers a handler gives to a request it turns down for what it asks.
RejectionStatus == {400, 403, 404, 409}

\* Slot s goes on to its next step without answering.
GoesOn(s) ==
    /\ reqs[s].pc # "idle" /\ reqs'[s].pc # "idle" /\ reqs'[s] # reqs[s]

\* The two handlers that write before their last step.
WritesEarly(r) == r.pc = "write" /\ r.op \in {"set_content_flags", "associate_data"}

\* C20: a request that is rejected for a validation reason has written
\* nothing: the step that rejects it leaves the room document, the blob
\* store and the audit trail unchanged, a request turned down at the gate
\* writes nothing either, and a handler that writes before its last step
\* has made all its checks by then and answers success.
C20_FailFast ==
    [][/\ TurnedAway => UNCHANGED Stores
       /\ \A s \in Slots :
            /\ (Answers(s) /\ last'.resp.status \in RejectionStatus)
                 => UNCHANGED Stores /\ ~WritesEarly(reqs[s])
            /\ (GoesOn(s) /\ Stores' # Stores) => WritesEarly(reqs'[s])]_vars

\* Rejections after writes: a second upload for a version that has its
\* file, and a malformed body, both answered 400 with the stores as they were.
C20_Witness ==
    /\ last.resp.status = 400
    /\ \/ /\ last.op = "associate_data" /\ last.resp.code = "file_already_associated"
          /\ room.subrooms["home"].versions[1].associated_file
       \/ /\ last.op = "set_content_flags" /\ last.resp.code = "invalid_input"
          /\ Len(audit) = 2

\* The stored pointer denotes a version of the list.
ValidIndex(pointer, versions) ==
    /\ ~IsNaN(pointer.content)
    /\ 0 <= ParseInt(pointer.content)
    /\ ParseInt(pointer.content) < Len(versions)

\* C21: in every reachable state, every subroom's publicVersionId is a
\* valid index into its versions list (0 <= publicVersionId < len).
C21_PublicVersionInRange ==
    room # NoRoom =>
        \A name \in DOMAIN room.subrooms :
            ValidIndex(room.subrooms[name].publicVersionId, room.subrooms[name].versions)

\* Slot s answers success to a set-public-version request.
SetsPublicVersion(s) ==
    /\ Answers(s) /\ reqs[s].op = "set_public_version"
    /\ last'.resp.status = 200

\* C22: each successful set-public-version records one
\* public_version_updated event whose new value is the pointer it wrote and
\* whose previous value is the pointer its write replaced, also when two
\* calls on the same subroom race.
C22_PointerAudit ==
    [][\A s \in Slots :
          SetsPublicVersion(s)
              => /\ OneAuditEvent("public_version_updated")
                 /\ audit'[Len(audit')].new_value.content
                        = room'.subrooms[reqs[s].name].publicVersionId.content
                 /\ audit'[Len(audit')].previous_value.content
                        = room.subrooms[reqs[s].name].publicVersionId.content]_vars

\* The handler of slot s looks at an associate-data request whose version
\* id is an integer outside the subroom's versions list.
IndexOutOfRange(s) ==
    /\ reqs[s].pc = "handler" /\ reqs[s].op = "associate_data"
    /\ room # NoRoom /\ reqs[s].name \in DOMAIN room.subrooms
    /\ ~IsNaN(reqs[s].target)
    /\ \/ ParseInt(reqs[s].target) < 0
       \/ ParseInt(reqs[s].target) >= Len(room.subrooms[reqs[s].name].versions)

\* C23: associate-data answers version_not_found, stores no payload and
\* changes no flag, for every integer version id below 0 or at or above
\* the length of the subroom's versions list.
C23_IndexOutOfRange ==
    [][\A s \in Slots :
          (IndexOutOfRange(s) /\ reqs'[s] # reqs[s])
              => /\ Answers(s)
                 /\ last'.resp = Resp(404, "version_not_found")
                 /\ UNCHANGED <<room, files, uploads>>]_vars

\* The versions list stored under a subroom name, empty where the room has
\* no subroom of the name.
VersionsOf(rm, name) ==
    IF name \in DOMAIN rm.subrooms THEN rm.subrooms[name].versions ELSE <<>>

\* A version's metadata: everything but its associated-file flag.
MetadataOf(version) == [k \in DOMAIN version \ {"associated_file"} |-> version[k]]

\* C24: for every subroom name of an existing room, the versions list
\* never shrinks, an existing index keeps its metadata, and a flag that is
\* true stays true.
C24_AppendOnly ==
    [][(room # NoRoom /\ room' # NoRoom) =>
          \A name \in SubroomNames :
              LET before == VersionsOf(room, name)
                  after == VersionsOf(room', name)
              IN /\ Len(after) >= Len(before)
                 /\ \A i \in 1..Len(before) :
                       /\ MetadataOf(after[i]) = MetadataOf(before[i])
                       /\ before[i].associated_file => after[i].associated_file]_vars

\* C25: in every reachable state, a version whose associated-file flag is
\* true has a payload stored at the path of its subroom and index.
C25_PayloadBeforeFlag ==
    room # NoRoom =>
        \A name \in DOMAIN room.subrooms :
            \A i \in DOMAIN room.subrooms[name].versions :
                room.subrooms[name].versions[i].associated_file
                    => BlobPath(name, i - 1) \in DOMAIN files

\* A download arrives for a subroom of the room.
DownloadArrives ==
    /\ Arrives /\ Arriving.op = "download"
    /\ room # NoRoom /\ Arriving.name \in DOMAIN room.subrooms

\* The version a selector stands for: 'latest' is the subroom's current
\* publicVersionId.
Selected(rm, subroom_id, selector) ==
    IF selector = "latest" THEN rm.subrooms[subroom_id].publicVersionId.content
    ELSE selector

\* The version has its associated-file flag.
Flagged(rm, subroom_id, version_id) ==
    /\ ~IsNaN(version_id)
    /\ ParseInt(version_id) + 1 \in DOMAIN rm.subrooms[subroom_id].versions
    /\ rm.subrooms[subroom_id].versions[ParseInt(version_id) + 1].associated_file

\* C26: a download whose selector (with 'latest' standing for the current
\* publicVersionId) names a version that has an associated file returns
\* that version's payload; one whose version has no associated file gets
\* the no-file answer.
C26_DownloadResolution ==
    [][/\ DownloadArrives =>
            IF Flagged(room, Arriving.name, Selected(room, Arriving.name, Arriving.target))
            THEN ~TurnedAway
            ELSE TurnedAway /\ last'.resp.status = 204
       /\ \A s \in Slots :
            (Answers(s) /\ reqs[s].op = "download")
                => LET path == BlobPath(reqs[s].name,
                                        ParseInt(Selected(reqs[s].reqRoom, reqs[s].name,
                                                          reqs[s].target)))
                   IN /\ path \in DOMAIN files
                      /\ last'.resp = Body(200, files[path])]_vars

\* C27: in every reachable state, no two room documents have the same
\* creator and the same name.
C27_NamesUniquePerCreator ==
    \A i, j \in 1..Len(rooms) : rooms[i] = rooms[j] => i = j

\* C28: in every reachable state, every subroom's maxPlayers is a positive
\* integer.
C28_MaxPlayersPositive ==
    room # NoRoom =>
        \A name \in DOMAIN room.subrooms :
            LET maxPlayers == room.subrooms[name].maxPlayers IN
            /\ maxPlayers.typeof = "number"
            /\ ~IsNaN(maxPlayers.content)
            /\ ParseInt(maxPlayers.content) > 0

\* C29: a ban recorded by BanPlayer ends `duration` hours after the call,
\* in the milliseconds login and refresh compare with.
C29_BanLastsHours ==
    [][\A id \in Users :
          Len(accounts'[id].bans) = Len(accounts[id].bans) + 1
              => \E duration \in Durations :
                    accounts'[id].bans[Len(accounts'[id].bans)].endTS
                        = now + duration * Hour]_vars

\* The list without the named player, the other entries in place and in
\* order.
RECURSIVE Without(_, _)
Without(list, player) ==
    IF list = <<>> THEN <<>>
    ELSE IF Head(list) = player THEN Without(Tail(list), player)
    ELSE <<Head(list)>> \o Without(Tail(list), player)

\* The accounts after the named player has been removed from player1's
\* list of the kind, and player1 from player2's when `both` is true.
Removed(all, field, player1, player2, both) ==
    [id \in DOMAIN all |->
        IF id = player1 THEN [all[id] EXCEPT ![field] = Without(@, player2)]
        ELSE IF id = player2 /\ both THEN [all[id] EXCEPT ![field] = Without(@, player1)]
        ELSE all[id]]

\* C30: RemoveAcquaintance, RemoveFriend and RemoveFavoriteFriend remove
\* only the named player from player1's list (and only player1 from
\* player2's list when both is true): every change of the accounts is such
\* a removal.
C30_RemoveOnlyNamed ==
    [][accounts' # accounts =>
          \E field \in {"acquaintances", "friends", "favoriteFriends"},
             pair \in Pairs, both \in BOOLEAN :
                accounts' = Removed(accounts, field, pair[1], pair[2], both)]_vars

\* ------------------------------------------------------------------ merged lists

\* The longest array handed to a helper.
MaxLen == 2

Arrays == UNION {[1..k -> Users] : k \in 0..MaxLen}

\* a.indexOf(item) < 0
NotIn(a, item) == \A i \in 1..Len(a) : a[i] # item

\* b.filter((item) => a.indexOf(item) < 0)
RECURSIVE FilterNotIn(_, _)
FilterNotIn(b, a) ==
    IF b = <<>> THEN <<>>
    ELSE IF NotIn(a, Head(b)) THEN <<Head(b)>> \o FilterNotIn(Tail(b), a)
    ELSE FilterNotIn(Tail(b), a)

\* MergeArraysWithoutDuplication(a, b)
MergeArraysWithoutDuplication(a, b) == a \o FilterNotIn(b, a)

\* A call of the helper: `last` keeps what was handed in and what came back.
Merge(a, b) ==
    /\ last' = [op |-> "merge", a |-> a, b |-> b,
                result |-> MergeArraysWithoutDuplication(a, b)]
    /\ UNCHANGED <<started, accounts, now>>
    /\ UNCHANGED roomVars

MergeNext == \E a \in Arrays, b \in Arrays : Merge(a, b)

\* MergeArraysWithoutDuplication on any two arrays.
SpecMerge == Init /\ [][MergeNext]_vars

\* C31: MergeArraysWithoutDuplication(a, b) returns the union of both
\* arrays with no duplicates: every element of a or b occurs in the result
\* and no value occurs in it more than once.
C31_MergeIsUnion ==
    last.op = "merge" =>
        /\ \A i \in 1..Len(last.a) : ~NotIn(last.result, last.a[i])
        /\ \A i \in 1..Len(last.b) : ~NotIn(last.result, last.b[i])
        /\ \A i, j \in 1..Len(last.result) :
              last.result[i] = last.result[j] => i = j

\* C32: no dangling role references: in every reachable state of an
\* existing room, every role name stored as a value in userPermissions is a
\* key of rolePermissions.
C32_NoDanglingRoles ==
    room.exists =>
        \A u \in DOMAIN room.userPermissions :
            room.userPermissions[u] \in DOMAIN room.rolePermissions

\* C33: the permission gates are total: for every existing room in every
\* reachable state and every authenticated requester, requiresRoomPermission
\* and canViewRoom end in allow or in the not-found denial, and never fail
\* while looking up the permissions of the requester's resolved role.
C33_GatesTotal ==
    room.exists =>
        \A uid \in Users :
            /\ ViewOutcome(room, uid) \in {"next", "denied"}
            /\ \A permission \in PermissionNames :
                  GateOutcome(room, uid, permission) \in {"next", "denied"}

\* ------------------------------------------------------------------ role assignment

\* A room whose owner has created the role builder, given it createVersions,
\* and given the role everyone managePermissions.
DelegatedRoom ==
    [NewRoom(Creator) EXCEPT
        !.rolePermissions =
            SetKey([@ EXCEPT !["everyone"] = SetKey(@, "managePermissions", TRUE)],
                   "builder", SetKey(EmptyObject, "createVersions", TRUE))]

InitAssignment ==
    /\ room = DelegatedRoom
    /\ files = EmptyObject
    /\ uploads = {}
    /\ audit = <<AuditEvent(Creator, "room_created", Null, "Test"),
                 AuditEvent(Creator, "role_created", Null, "builder"),
                 AuditEvent(Creator, "role_permissions_updated", EmptyObject,
                            DelegatedRoom.rolePermissions["builder"]),
                 AuditEvent(Creator, "role_permissions_updated", EveryoneInitial,
                            DelegatedRoom.rolePermissions["everyone"])>>
    /\ notifications = <<>>
    /\ reqs = [s \in Slots |-> Idle]
    /\ last = Answered(Request("update_role", Creator, "everyone", "-",
                               << <<"managePermissions", "true">> >>),
                       Resp(200, "success"), {})
    /\ started = 0
    /\ rooms = <<RoomEntry(Creator, "Test")>>
    /\ accounts = [id \in Users |-> NewAccount]
    /\ now = 0
    /\ imageMetadataTemplate = ImageMetadata("undefined", "0", "0", "public")
    /\ images = <<>>
    /\ ImageCount = 0

\* The accounts a role is assigned to: u3 sends no requests of its own.
Targets == {"u1", "u2", "u3"}

AssignmentRequests ==
    {Request("set_role", uid, name, target, <<>>) :
        uid \in Users, name \in {"owner", "everyone", "builder"}, target \in Targets}

AssignmentGate == \E s \in Slots, q \in AssignmentRequests : Gate(s, q)

AssignmentNext ==
    \/ AssignmentGate
    \/ \E s \in Slots : SetRoleRead(s)
    \/ \E s \in Slots : SetRoleWrite(s)

\* Role assignments in a room where the role everyone may manage permissions.
SpecAssignment == InitAssignment /\ [][AssignmentNext]_vars

\* The permissions a role record grants.
TruePermissions(record) == {p \in DOMAIN record : record[p] = TRUE}

\* The permissions the account holds in the room through its role.
Holds(rm, uid) == TruePermissions(RolePerms(rm, ResolveRole(rm, uid)))

\* The accounts that are neither the room's owner nor a developer.
Plain(rm) == {uid \in Targets : ResolveRole(rm, uid) # "owner" /\ ~Developer(uid)}

\* C34: no privilege escalation through role assignment: when set-user-role
\* succeeds for an actor who is neither owner nor developer, the assigned
\* role's true permissions are a subset of the actor's own, and the step
\* gives no plain account a permission none of them held before.
C34_NoEscalation ==
    [][\A s \in Slots :
          (/\ reqs[s].pc = "write" /\ reqs[s].op = "set_role"
           /\ Answers(s) /\ last'.resp.status = 200
           /\ reqs[s].actor \in Plain(reqs[s].room))
          => /\ TruePermissions(RolePerms(reqs[s].room, reqs[s].name))
                   \subseteq Holds(reqs[s].room, reqs[s].actor)
             /\ UNION {Holds(room', uid) : uid \in Plain(room')}
                   \subseteq UNION {Holds(room, uid) : uid \in Plain(room)}]_vars

\* C35: a role-permissions update on role R changes only R's permission
\* set: every other key of rolePermissions, including roles created, deleted
\* or updated between this update's read of the room and its write, is left
\* exactly as it was stored.
C35_UpdateChangesOneRole ==
    [][\A s \in Slots :
          (/\ reqs[s].pc = "write" /\ reqs[s].op = "update_role"
           /\ Answers(s) /\ last'.resp.status = 200
           /\ room.exists)
          => UnsetKey(room'.rolePermissions, reqs[s].name)
                = UnsetKey(room.rolePermissions, reqs[s].name)]_vars

\* A suspend has completed on the room.
Suspended(rm) == rm.exists /\ rm.description = SuspendedNotice

\* The lockdown a suspend leaves: nobody has a role of their own and the role
\* everyone may not view or join.
Lockdown(rm) ==
    /\ rm.userPermissions = EmptyObject
    /\ ~Truthy(RolePerms(rm, "everyone"), "viewAndJoin")

\* C36: the suspension lockdown persists: once a suspend has completed,
\* userPermissions stays empty and rolePermissions.everyone.viewAndJoin
\* stays false when a request of an account that is no developer, having
\* passed its gate before the suspend, completes its write after it.
C36_LockdownPersists ==
    [][\A s \in Slots :
          (/\ Suspended(room) /\ Lockdown(room)
           /\ Answers(s) /\ ~Developer(reqs[s].actor))
          => Lockdown(room')]_vars

\* ------------------------------------------------------------------ version metadata

\* Bodies of create-version that say what their spawn and collaborators are:
\* `spawn` and `collaborators` keep what the typeof checks see, spawnValue
\* and collaboratorsValue what the client sent.
MetadataBodies ==
    {[spawn |-> "numeric", spawnValue |-> Spawn(<<"1", "2", "3">>, <<"0", "0", "0", "1">>),
      collaborators |-> "array", collaboratorsValue |-> <<"u2">>,
      baseSceneIndex |-> Number("3"),
      shortHandCommitMessage |-> "m1", longHandCommitMessage |-> "l1"],
     [spawn |-> "numeric", spawnValue |-> DefaultSpawn,
      collaborators |-> "array", collaboratorsValue |-> <<>>,
      shortHandCommitMessage |-> "m2"],
     [spawn |-> "numeric", spawnValue |-> DefaultSpawn,
      collaborators |-> "array", collaboratorsValue |-> <<>>,
      baseSceneIndex |-> String("3")],
     [spawn |-> "missing", spawnValue |-> DefaultSpawn,
      collaborators |-> "array", collaboratorsValue |-> <<"u2">>,
      shortHandCommitMessage |-> "m1"]}

MetadataRequests ==
    {Request("create_version", uid, "home", "-", body) :
        uid \in Users, body \in MetadataBodies}

MetadataGate == \E s \in Slots, q \in MetadataRequests : Gate(s, q)

MetadataNext ==
    \/ MetadataGate
    \/ \E s \in Slots : CreateVersionRead(s)
    \/ \E s \in Slots : CreateVersionWrite(s)

\* Versions created with metadata of every shape.
SpecMetadata == Init /\ [][MetadataNext]_vars

\* The optional field of the body, or the default where it is missing.
Supplied(body, field, default) == IF field \in DOMAIN body THEN body[field] ELSE default

\* C37: a successful create-version appends a version whose spawn position
\* and rotation, baseSceneIndex, commit messages and collaborators are the
\* validated values supplied in the request, with associated-file false;
\* only missing optional fields fall back to defaults.
C37_VersionKeepsMetadata ==
    [][\A s \in Slots :
          (/\ reqs[s].pc = "write" /\ reqs[s].op = "create_version"
           /\ Answers(s) /\ last'.resp.status = 200
           /\ room'.exists /\ last'.index >= 0)
          => LET body == reqs[s].body
                 stored == room'.subrooms[reqs[s].name].versions[last'.index + 1]
             IN /\ stored.spawn = body.spawnValue
                /\ stored.collaborators = body.collaboratorsValue
                /\ stored.message = Supplied(body, "shortHandCommitMessage", "No Message")
                /\ stored.longHandCommitMessage
                      = Supplied(body, "longHandCommitMessage", "No Description")
                /\ stored.baseSceneIndex
                      = IF /\ "baseSceneIndex" \in DOMAIN body
                           /\ body.baseSceneIndex.typeof = "number"
                        THEN body.baseSceneIndex ELSE Number("9")
                /\ stored.associated_file = FALSE]_vars

\* ------------------------------------------------------------------ friend requests

\* list.includes(item)
Includes(list, item) == \E i \in 1..Len(list) : list[i] = item

\* ArePlayersAnyFriendType(player1, player2)
ArePlayersAnyFriendType(all, player1, player2) ==
    \/ Includes(all[player1].acquaintances, player2)
    \/ Includes(all[player1].friends, player2)
    \/ Includes(all[player1].favoriteFriends, player2)
    \/ Includes(all[player2].acquaintances, player1)
    \/ Includes(all[player2].friends, player1)
    \/ Includes(all[player2].favoriteFriends, player1)

\* A friend-request notification in the target's account.
FriendRequestNotification(sendingPlayer) ==
    [template |-> "friendRequest", sendingPlayer |-> sendingPlayer]

\* NotifyPlayer(id, template, params): the account is pulled, the
\* notification pushed, the account written back.
NotifyPlayer(all, id, notification) ==
    [all EXCEPT ![id].notifications = Append(@, notification)]

\* AddAcquaintance(player1, player2, both): both accounts are pulled first,
\* and each is written back when it is changed.
AddAcquaintance(all, player1, player2, both) ==
    LET data1 == [all[player1] EXCEPT !.acquaintances = Append(@, player2)]
        data2 == [all[player2] EXCEPT !.acquaintances = Append(@, player1)]
        first == IF ~Includes(all[player1].acquaintances, player2)
                 THEN [all EXCEPT ![player1] = data1] ELSE all
    IN IF ~Includes(all[player2].acquaintances, player1) /\ both
       THEN [first EXCEPT ![player2] = data2] ELSE first

\* The loop of accept-request over the notifications of the target's
\* requests: one findIndex and one splice for each of the `count` matches
\* counted before the loop.
RECURSIVE DropNotifications(_, _, _)
DropNotifications(list, target, count) ==
    IF count = 0 THEN list
    ELSE DropNotifications(
             Splice(list, FindIndex(list, FriendRequestNotification(target))),
             target, count - 1)

\* The number of notifications of requests of the target.
Matches(list, target) ==
    Cardinality({i \in 1..Len(list) : list[i] = FriendRequestNotification(target)})

\* POST /friend-request
FriendRequest(uid, target) ==
    LET q == Request("friend_request", uid, "-", target, <<>>)
        sendingData == accounts[uid]
        notified == NotifyPlayer(accounts, target, FriendRequestNotification(uid))
    IN
    /\ started < MaxRequests
    /\ started' = started + 1
    /\ IF ArePlayersAnyFriendType(accounts, uid, target)
       THEN /\ last' = Answered(q, Resp(400, "already_friends"), {})
            /\ UNCHANGED accounts
       ELSE IF Includes(sendingData.friendRequestsSent, target)
       THEN /\ last' = Answered(q, Resp(400, "duplicate_request"), {})
            /\ UNCHANGED accounts
       ELSE /\ last' = Answered(q, Resp(200, "success"), {target})
            /\ accounts' = [notified EXCEPT ![uid] =
                               [sendingData EXCEPT !.friendRequestsSent = Append(@, target)]]
    /\ UNCHANGED now
    /\ UNCHANGED roomVars

\* POST /accept-request
AcceptRequest(uid, target) ==
    LET q == Request("accept_request", uid, "-", target, <<>>)
        count == Matches(accounts[uid].notifications, target)
        sendingData == accounts[target]
        cleared == IF count > 0
                   THEN [accounts EXCEPT ![uid].notifications =
                            DropNotifications(@, target, count)]
                   ELSE accounts
        added == AddAcquaintance(cleared, uid, target, TRUE)
        index == FindIndex(added[target].friendRequestsSent, uid)
    IN
    /\ started < MaxRequests
    /\ started' = started + 1
    /\ IF ArePlayersAnyFriendType(cleared, uid, target)
       THEN /\ last' = Answered(q, Resp(400, "already_friends"), {})
            /\ accounts' = cleared
       ELSE IF ~Includes(sendingData.friendRequestsSent, uid)
       THEN /\ last' = Answered(q, Resp(400, "no_request"), {})
            /\ accounts' = cleared
       ELSE /\ last' = Answered(q, Resp(200, "success"), {})
            /\ accounts' = [added EXCEPT ![target].friendRequestsSent =
                               IF index >= 0 THEN Splice(@, index) ELSE @]
    /\ UNCHANGED now
    /\ UNCHANGED roomVars

FriendsNext ==
    \/ \E uid \in Users, target \in Users : FriendRequest(uid, target)
    \/ \E uid \in Users, target \in Users : AcceptRequest(uid, target)

\* Friend requests sent and accepted, one request at a time.
SpecFriends == Init /\ [][FriendsNext]_vars

\* C38: accept-request by account A for target B succeeds only if B has an
\* outstanding friend request to A and the two are not already
\* acquaintances, friends or favorite friends; on success A and B are in
\* each other's acquaintances lists and exactly that one request is removed
\* from B's friendRequestsSent, B's other requests remaining.
C38_AcceptRequest ==
    [][(/\ started' # started
        /\ last'.op = "accept_request" /\ last'.resp.status = 200)
       => LET A == last'.actor
              B == last'.target
          IN /\ Includes(accounts[B].friendRequestsSent, A)
             /\ ~ArePlayersAnyFriendType(accounts, A, B)
             /\ Includes(accounts'[A].acquaintances, B)
             /\ Includes(accounts'[B].acquaintances, A)
             /\ accounts'[B].friendRequestsSent
                   = Without(accounts[B].friendRequestsSent, A)]_vars

\* ------------------------------------------------------------------ images

\* POST /img/upload, up to its findOne of the ImageCount document.
UploadRead(s, q) ==
    /\ q.op = "upload"
    /\ FreeSlot(s)
    /\ started < MaxRequests
    /\ started' = started + 1
    /\ reqs' = [reqs EXCEPT ![s] =
            [pc |-> "insert", op |-> q.op, actor |-> q.actor, name |-> q.name,
             target |-> q.target, body |-> q.body, count |-> ImageCount]]
    /\ UNCHANGED <<room, files, uploads, audit, notifications, last, rooms, accounts, now>>
    /\ UNCHANGED imgVars

\* var MetaData = imageMetadataTemplate and the assignments to it: the
\* module's one object is written, and its visibility only when the query
\* says unlisted.
FillTemplate(template, r) ==
    ImageMetadata(NumberToString(r.count + 1), r.actor, r.name,
                  IF r.body = "unlisted" THEN "unlisted" ELSE template.visibility)

\* insertOne on the images collection: a document whose _id is taken is
\* refused.
InsertOne(collection, doc) ==
    IF \E i \in 1..Len(collection) : collection[i]._id = doc._id
    THEN collection ELSE Append(collection, doc)

\* POST /img/upload, from its findOne on: nothing is awaited any more.
UploadInsert(s) ==
    LET r == reqs[s]
        MetaData == FillTemplate(imageMetadataTemplate, r)
    IN
    /\ r.pc = "insert" /\ r.op = "upload"
    /\ imageMetadataTemplate' = MetaData
    /\ ImageCount' = r.count + 1
    /\ images' = InsertOne(images, MetaData)
    /\ Finish(s, Resp(200, "success"))
    /\ UNCHANGED <<room, files, uploads, audit, notifications, started, rooms, accounts, now>>

\* Uploads by every account, to room "0", with the visibility query
\* unlisted, public or absent.
UploadRequests ==
    {Request("upload", uid, "0", "-", visibility) :
        uid \in Users, visibility \in {"unlisted", "public", "-"}}

ImagesNext ==
    \/ \E s \in Slots, q \in UploadRequests : UploadRead(s, q)
    \/ \E s \in Slots : UploadInsert(s)

\* Image uploads, served concurrently.
SpecImages == Init /\ [][ImagesNext]_vars

\* C39: image uploads are independent of each other: the visibility stored
\* for an uploaded image is unlisted if and only if its request passes
\* visibility=unlisted, otherwise public, for any sequence of earlier
\* uploads, and the record of an earlier upload is not altered.
C39_UploadsIndependent ==
    [][\A s \in Slots :
          (reqs[s].pc = "insert" /\ reqs[s].op = "upload" /\ Answers(s))
          => /\ SubSeq(images', 1, Len(images)) = images
             /\ Len(images') > Len(images) =>
                   images'[Len(images')].visibility
                      = IF reqs[s].body = "unlisted" THEN "unlisted" ELSE "public"]_vars

====
